---- MODULE Spec2Model ----
(***************************************************************************)
(* Model of the batch orchestration layer of yt-audio-cli:                 *)
(*   batch/job.py       DownloadJob and its transition methods             *)
(*   batch/retry.py     RetryConfig, is_retryable_error, is_permanent_error*)
(*   batch/executor.py  shutdown_event, WorkerPool                         *)
(*   batch/request.py   BatchRequest counters, BatchResult.from_request    *)
(*   download/batch.py  BatchDownloader (_download_single, _convert_audio, *)
(*                      _process_job_with_retry, run)                      *)
(* Strings are sequences of one-character strings so that substring        *)
(* matching and lower-casing are computed, not assumed.                    *)
(***************************************************************************)
EXTENDS Integers, Sequences, FiniteSets, TLC

\* ------------------------------------------------------------------ bounds
NumJobs == 3        \* largest batch explored
MaxWorkers == 2     \* largest request.max_workers explored
MaxAttempts == 2    \* largest retry_config.max_attempts explored
MaxProgress == 1    \* progress callbacks explored in a run of a single job
MaxFaults == 2      \* failing outcomes explored in a run of a single job
BatchFaults == 1    \* failing outcomes explored in a run of several jobs
MaxTasks == 3       \* futures a direct client of WorkerPool creates
MaxListed == 2      \* length of the list given to wait_for_completion
MaxRetryCount == 2  \* largest retry_count a direct caller of DownloadJob reaches
MaxJoined == 2      \* most phrases joined into one error message
MaxPreexisting == 2 \* most files already in the output directory
MaxGivenRetries == 10  \* largest max_retries given to download_batch
MaxGivenWorkers == 16  \* largest max_workers given to download_batch
TicksPerSecond == 2 \* delays are counted in ticks; random.uniform(0, 1) is 0..TicksPerSecond ticks
MaxGivenAttempts == 11  \* largest max_attempts given to RetryConfig
MaxBaseDelay == 3   \* largest base_delay given to RetryConfig, in ticks
MaxMaxDelay == 6    \* largest max_delay given to RetryConfig, in ticks
MaxAttemptArg == 4  \* largest attempt given to delay_for_attempt

\* ----------------------------------------------------------------- strings
UpperChars ==
    <<"A","B","C","D","E","F","G","H","I","J","K","L","M",
      "N","O","P","Q","R","S","T","U","V","W","X","Y","Z">>

LowerChars ==
    <<"a","b","c","d","e","f","g","h","i","j","k","l","m",
      "n","o","p","q","r","s","t","u","v","w","x","y","z">>

\* str.lower() on one character
LowerChar(c) ==
    IF \E i \in 1..26 : UpperChars[i] = c
    THEN LowerChars[CHOOSE i \in 1..26 : UpperChars[i] = c]
    ELSE c

\* str.upper() on one character
UpperChar(c) ==
    IF \E i \in 1..26 : LowerChars[i] = c
    THEN UpperChars[CHOOSE i \in 1..26 : LowerChars[i] = c]
    ELSE c

\* str.upper()
Upper(s) == [i \in 1..Len(s) |-> UpperChar(s[i])]

\* a string compared as it is
Lower_identity(s) == s

\* str.lower()
Lower(s) == [i \in 1..Len(s) |-> LowerChar(s[i])]

\* Python's  pattern in text
Contains(text, pattern) ==
    \E i \in 1..(Len(text) - Len(pattern) + 1) :
        SubSeq(text, i, i + Len(pattern) - 1) = pattern

\* Optional[str]
None == [has |-> FALSE, text |-> << >>]

Some(s) == [has |-> TRUE, text |-> s]

\* Python's  x or default  for an Optional[str]
OrElse(x, default) == IF x.has /\ x.text # << >> THEN x.text ELSE default

\* ---------------------------------------------------------------- retry.py
RETRYABLE_PATTERNS ==
    { <<"t","i","m","e","o","u","t">>,
      <<"c","o","n","n","e","c","t","i","o","n"," ","r","e","s","e","t">>,
      <<"t","e","m","p","o","r","a","r","y"," ","f","a","i","l","u","r","e">>,
      <<"4","2","9">>,
      <<"t","o","o"," ","m","a","n","y"," ","r","e","q","u","e","s","t","s">>,
      <<"5","0","3">>,
      <<"s","e","r","v","i","c","e"," ","u","n","a","v","a","i","l","a","b","l","e">>,
      <<"n","e","t","w","o","r","k">>,
      <<"t","i","m","e","d"," ","o","u","t">>,
      <<"c","o","n","n","e","c","t","i","o","n"," ","r","e","f","u","s","e","d">>,
      <<"c","o","n","n","e","c","t","i","o","n"," ","e","r","r","o","r">>,
      <<"s","s","l"," ","e","r","r","o","r">>,
      <<"r","e","a","d"," ","t","i","m","e","o","u","t">>,
      <<"w","r","i","t","e"," ","t","i","m","e","o","u","t">> }

PERMANENT_PATTERNS ==
    { <<"4","0","4">>,
      <<"n","o","t"," ","f","o","u","n","d">>,
      <<"v","i","d","e","o"," ","u","n","a","v","a","i","l","a","b","l","e">>,
      <<"p","r","i","v","a","t","e"," ","v","i","d","e","o">>,
      <<"i","s"," ","p","r","i","v","a","t","e">>,
      <<"a","g","e"," ","r","e","s","t","r","i","c","t","e","d">>,
      <<"a","g","e","-","r","e","s","t","r","i","c","t","e","d">>,
      <<"c","o","p","y","r","i","g","h","t">>,
      <<"r","e","m","o","v","e","d">>,
      <<"d","e","l","e","t","e","d">>,
      <<"b","l","o","c","k","e","d">>,
      <<"g","e","o"," ","r","e","s","t","r","i","c","t","e","d">>,
      <<"m","e","m","b","e","r","s"," ","o","n","l","y">>,
      <<"a","v","a","i","l","a","b","l","e"," ","t","o"," ","m","e","m","b","e","r","s">>,
      <<"s","i","g","n"," ","i","n">>,
      <<"l","o","g","i","n"," ","r","e","q","u","i","r","e","d">>,
      <<"i","n","v","a","l","i","d"," ","u","r","l">>,
      <<"u","n","s","u","p","p","o","r","t","e","d"," ","u","r","l">> }

\* is_permanent_error(error); error_lower = error.lower() is computed once
is_permanent_error(error) ==
    IF error = << >>
    THEN FALSE
    ELSE \E error_lower \in {Lower(error)} :
            \E pattern \in PERMANENT_PATTERNS : Contains(error_lower, pattern)

\* is_retryable_error that takes every message that is not permanent
is_retryable_error_any(error) ==
    IF error = << >>
    THEN FALSE
    ELSE ~is_permanent_error(error)

\* is_retryable_error without the test for a permanent error
is_retryable_error_no_precedence(error) ==
    IF error = << >>
    THEN FALSE
    ELSE \E error_lower \in {Lower(error)} :
            \E pattern \in RETRYABLE_PATTERNS : Contains(error_lower, pattern)

\* is_retryable_error that takes the empty message
is_retryable_error_empty(error) ==
    IF error = << >>
    THEN TRUE
    ELSE IF is_permanent_error(error)
         THEN FALSE
         ELSE \E error_lower \in {Lower(error)} :
                 \E pattern \in RETRYABLE_PATTERNS : Contains(error_lower, pattern)

\* is_retryable_error(error)
is_retryable_error(error) ==
    IF error = << >>
    THEN FALSE
    ELSE IF is_permanent_error(error)
         THEN FALSE
         ELSE \E error_lower \in {Lower(error)} :
                 \E pattern \in RETRYABLE_PATTERNS : Contains(error_lower, pattern)

\* should_retry that stops one attempt early
should_retry_early(max_attempts, attempt) == attempt < max_attempts - 2

\* should_retry that allows one retry too many
should_retry_late(max_attempts, attempt) == attempt < max_attempts

\* RetryConfig.should_retry(attempt)
should_retry(max_attempts, attempt) == attempt < max_attempts - 1

\* ------------------------------------------------------------------ job.py
PENDING == "pending"

ACTIVE == "active"

COMPLETE == "complete"

FAILED == "failed"

CANCELLED == "cancelled"

NoPath == 0

\* DownloadJob(url, output_dir) right after construction
NewJob ==
    [url |-> "https://example.com/v", output_dir |-> "out", format |-> "mp3",
     status |-> PENDING, retry_count |-> 0, error_message |-> None,
     output_path |-> NoPath, current_percent |-> 0, current_title |-> << >>]

\* a percent stored as given
Clamp_unbounded(percent) == percent

\* max(0, min(100, percent))
Clamp(percent) == IF percent < 0 THEN 0 ELSE IF percent > 100 THEN 100 ELSE percent

\* mark_active that refuses a job that is not Pending
mark_active_guarded(job) ==
    IF job.status = PENDING
    THEN [job EXCEPT !.status = ACTIVE, !.current_percent = 0]
    ELSE job

\* DownloadJob.mark_active()  (title defaults to "")
mark_active(job) == [job EXCEPT !.status = ACTIVE, !.current_percent = 0]

\* mark_complete that forgets to record the output path
mark_complete_nopath(job, path) ==
    [job EXCEPT !.status = COMPLETE, !.current_percent = 100,
                !.error_message = None]

\* DownloadJob.mark_complete(output_path)
mark_complete(job, path) ==
    [job EXCEPT !.status = COMPLETE, !.output_path = path,
                !.current_percent = 100, !.error_message = None]

\* DownloadJob.mark_failed(error)
mark_failed(job, error) ==
    [job EXCEPT !.status = FAILED, !.error_message = Some(error)]

\* mark_cancelled that also counts a retry
mark_cancelled_counts(job) ==
    [job EXCEPT !.status = CANCELLED, !.retry_count = @ + 1]

\* DownloadJob.mark_cancelled()
mark_cancelled(job) == [job EXCEPT !.status = CANCELLED]

\* DownloadJob.__post_init__ for a valid url and retry_count >= 0
post_init(job) == [job EXCEPT !.current_percent = Clamp(@)]

\* DownloadJob.update_progress(percent)  (title defaults to "")
update_progress(job, percent) == [job EXCEPT !.current_percent = Clamp(percent)]

\* increment_retry that forgets to reset the status
increment_retry_keeps_status(job) ==
    [job EXCEPT !.retry_count = @ + 1, !.current_percent = 0,
                !.error_message = None]

\* increment_retry that keeps the percent
increment_retry_keeps_percent(job) ==
    [job EXCEPT !.retry_count = @ + 1, !.status = PENDING,
                !.error_message = None]

\* increment_retry that keeps the error message
increment_retry_keeps_error(job) ==
    [job EXCEPT !.retry_count = @ + 1, !.status = PENDING,
                !.current_percent = 0]

\* increment_retry that does not count
increment_retry_no_count(job) ==
    [job EXCEPT !.status = PENDING, !.current_percent = 0,
                !.error_message = None]

\* increment_retry that counts twice
increment_retry_twice(job) ==
    [job EXCEPT !.retry_count = @ + 2, !.status = PENDING,
                !.current_percent = 0, !.error_message = None]

\* DownloadJob.increment_retry()
increment_retry(job) ==
    [job EXCEPT !.retry_count = @ + 1, !.status = PENDING,
                !.current_percent = 0, !.error_message = None]

\* --------------------------------------------------------------- constants
TERMINAL == {COMPLETE, FAILED, CANCELLED}

\* messages the code itself produces
DownloadFailedMsg == <<"D","o","w","n","l","o","a","d"," ","f","a","i","l","e","d">>

TempFileMsg ==
    <<"T","e","m","p","o","r","a","r","y"," ","f","i","l","e"," ",
      "n","o","t"," ","f","o","u","n","d">>

ConversionFailedPrefix ==
    <<"C","o","n","v","e","r","s","i","o","n"," ","f","a","i","l","e","d",":"," ">>

\* ------------------------------------------------- inputs of the environment
\* DownloadResult.error of a failed download()
FetchErrors ==
    { Some(<<"C","o","n","n","e","c","t","i","o","n"," ","t","i","m","e","o","u","t">>),
      Some(<<"V","i","d","e","o"," ","u","n","a","v","a","i","l","a","b","l","e">>),
      None }

\* str(e) of an exception raised by download()
FetchExceptions == { << >> }

\* str(e) of an exception raised by tempfile.TemporaryDirectory()
TempDirExceptions ==
    { <<"N","o"," ","s","p","a","c","e"," ","l","e","f","t">> }

\* str(e) of an exception raised by transcode()
ConvertExceptions ==
    { <<"t","i","m","e","o","u","t">>,
      <<"c","o","d","e","c"," ","e","r","r","o","r">> }

\* what one download() call can do
FetchOutcomes ==
    { [kind |-> "ok", error |-> None], [kind |-> "nofile", error |-> None] }
    \cup { [kind |-> "fail", error |-> e] : e \in FetchErrors }
    \cup { [kind |-> "raise", error |-> Some(e)] : e \in FetchExceptions }

\* (downloaded, total) arguments of progress_callback
ProgressInputs == { <<1, 2>>, <<2, 2>>, <<3, 2>>, <<1, 0>> }

Jobs == 1..NumJobs

WorkerIds == 0..(MaxWorkers - 1)

Threads == 1..MaxWorkers

\* ------------------------------------------------------------------- state
VARIABLES
    shutdown,           \* executor.shutdown_event
    nJobs,              \* len(request.jobs)
    max_workers,        \* request.max_workers
    max_attempts,       \* retry_config.max_attempts
    fault_budget,       \* failing outcomes the environment may still produce
    job,                \* request.jobs[j]: the DownloadJob records
    completed,          \* request._completed
    failed,             \* request._failed
    cancelled,          \* request._cancelled
    cpc,                \* position of the thread that called run()
    effective_workers,  \* run(): effective_workers
    job_index,          \* run(): job_index
    seed_id,            \* run(): worker_id of the seeding loop
    pending_futures,    \* run(): pending_futures, in insertion order
    done_futures,       \* run(): done_futures still to be handled
    futures,            \* every Future the executor created
    worker_states,      \* pool.worker_states[w].job (0 = idle)
    thr,                \* pool threads: position, future, attempt
    events,             \* ProgressUpdate events put on the queue, per job
    result,             \* the BatchResult run() returned
    attempts,           \* history: outcome of every attempt, per job
    hist,               \* history: per-job call counters
    progress_budget,    \* progress callbacks the environment may still make
    initShutdown,       \* history: shutdown was set when run() was called
    client,             \* a caller that uses WorkerPool directly, not run()
    caller,             \* a caller that uses a DownloadJob directly: its last call
    retry_config,       \* a RetryConfig being constructed and asked for delays
    max_retries,        \* request.max_retries
    yielded,            \* what the last pending_jobs() iteration yielded
    files,              \* final files in the output directory, with the job that made them
    final_output_path   \* _convert_audio: final_output_path of each pool thread

vars ==
    <<shutdown, nJobs, max_workers, max_attempts, fault_budget, job, completed, failed,
      cancelled, cpc, effective_workers, job_index, seed_id, pending_futures,
      done_futures, futures, worker_states, thr, events, result, attempts,
      hist, progress_budget, initShutdown, client, caller, retry_config,
      max_retries, yielded, files, final_output_path>>

coordVars ==
    <<cpc, effective_workers, job_index, seed_id, pending_futures,
      done_futures, result>>

counterVars == <<completed, failed, cancelled>>

\* what only direct callers of RetryConfig, BatchRequest.pending_jobs,
\* download_batch and _convert_audio use
libVars == <<retry_config, max_retries, yielded, files, final_output_path>>

\* what no step of run() or of a job body changes
configVars ==
    <<nJobs, max_workers, max_attempts, initShutdown, client, caller, libVars>>

\* worker_id = None
NoWorker == -1

\* the direct caller of WorkerPool before its first call
NoClient ==
    [pc |-> "none", last |-> -1, lastSaw |-> FALSE, down |-> FALSE,
     arg |-> << >>, waitset |-> {}, results |-> << >>, errors |-> << >>]

\* no RetryConfig given
NoConfig ==
    [max_attempts |-> 3, base_delay |-> 0, max_delay |-> 0, jitter |-> FALSE,
     built |-> "none", attempt |-> 0, delay |-> 0]

\* pending_jobs() not called
NoIteration == [pos |-> -1, out |-> << >>]

\* no final_output_path computed
NoFinal == << >>

\* nothing but the run: the other callers' variables at rest
LibIdle ==
    /\ retry_config = NoConfig
    /\ max_retries = 0
    /\ yielded = NoIteration
    /\ files = {}
    /\ final_output_path = [t \in Threads |-> NoFinal]

\* no method of a DownloadJob called directly
NoCall == [method |-> "none", arg |-> 0, before |-> NewJob]

\* max taken for min
Min_is_max(a, b) == IF a < b THEN b ELSE a

\* Python's min(a, b)
Min(a, b) == IF a < b THEN a ELSE b

\* failing outcomes explored in a batch of n jobs
FaultsFor(n) == IF n > 1 THEN BatchFaults ELSE MaxFaults

\* progress callbacks explored in a batch of n jobs
ProgressFor(n) == IF n > 1 THEN 0 ELSE MaxProgress

NoResult == [total |-> -1, successful |-> -1, failed |-> -1]

IdleThread == [pc |-> "idle", fut |-> 0, attempt |-> 0]

NewHist ==
    [fetchCalls |-> 0, fetchOk |-> 0, convertCalls |-> 0, sleeps |-> 0,
     failedEntries |-> 0, dispatched |-> 0, counted |-> 0, countedAs |-> "none",
     raised |-> None]

\* history only: the class of a message by the pattern lists alone,
\* permanent before retryable, anything else (the empty message too) unknown
ErrorClass(error) ==
    LET matches(patterns) ==
            \E error_lower \in {Lower(error)} :
                \E pattern \in patterns : Contains(error_lower, pattern)
    IN IF matches(PERMANENT_PATTERNS) THEN "permanent"
       ELSE IF matches(RETRYABLE_PATTERNS) THEN "retryable"
       ELSE "unknown"

Init ==
    /\ shutdown \in BOOLEAN
    /\ initShutdown = shutdown
    /\ nJobs \in 0..NumJobs
    /\ max_workers \in 1..MaxWorkers
    /\ max_attempts \in 1..MaxAttempts
    /\ fault_budget = FaultsFor(nJobs)
    /\ job = [j \in Jobs |-> NewJob]
    /\ completed = 0
    /\ failed = 0
    /\ cancelled = 0
    /\ cpc = "start"
    /\ effective_workers = 0
    /\ job_index = 0
    /\ seed_id = 0
    /\ pending_futures = << >>
    /\ done_futures = << >>
    /\ futures = << >>
    /\ worker_states = [w \in WorkerIds |-> 0]
    /\ thr = [t \in Threads |-> IdleThread]
    /\ events = [j \in Jobs |-> << >>]
    /\ result = NoResult
    /\ attempts = [j \in Jobs |-> << >>]
    /\ hist = [j \in Jobs |-> NewHist]
    /\ progress_budget = ProgressFor(nJobs)
    /\ client = NoClient
    /\ LibIdle
    /\ caller = NoCall

\* ----------------------------------------------------------------- helpers
\* job handled by pool thread t
JobOf(t) == futures[thr[t].fut].job

\* worker_id argument of the body thread t runs
WorkerIdOf(t) == futures[thr[t].fut].worker_id

\* ids of the futures still in the executor's work queue
Queued == { f \in 1..Len(futures) : futures[f].state = "queued" }

\* BatchDownloader._send_progress(worker_id, job, event, ...): the event kind
\* of the ProgressUpdate put on the queue, kept per job
SendProgress(j, event) == [events EXCEPT ![j] = Append(@, event)]

\* one more attempt outcome in the history of job j
Logged(j, phase, class) ==
    [attempts EXCEPT ![j] = Append(@, [phase |-> phase, class |-> class])]

\* a body whose return never resolves its future
Finish_unresolved(t, res) ==
    /\ thr' = [thr EXCEPT ![t] = [pc |-> "idle", fut |-> 0, attempt |-> 0]]
    /\ UNCHANGED futures

\* the job body returns status res: the future resolves, the thread is free
Finish(t, res) ==
    /\ futures' = [futures EXCEPT ![thr[t].fut].state = "done",
                                  ![thr[t].fut].result = res]
    /\ thr' = [thr EXCEPT ![t] = IdleThread]

Goto(t, pc) == thr' = [thr EXCEPT ![t].pc = pc]

\* ----------------------------------------------------- ThreadPoolExecutor
\* a free pool thread takes the oldest queued work item and starts
\* _process_job_with_retry(job, worker_id)
PickUp(t) ==
    /\ t <= effective_workers
    /\ thr[t].pc = "idle"
    /\ \A u \in 1..(t - 1) : thr[u].pc # "idle"
    /\ Queued # {}
    /\ LET f == CHOOSE g \in Queued : \A h \in Queued : g <= h
       IN /\ futures' = [futures EXCEPT ![f].state = "running"]
          /\ thr' = [thr EXCEPT ![t] = [pc |-> "loop_check", fut |-> f,
                                        attempt |-> 0]]
    /\ UNCHANGED <<shutdown, configVars, fault_budget, job, counterVars, coordVars,
                   worker_states, events, attempts, hist, progress_budget>>

\* ------------------------------------------ _process_job_with_retry, top
\* the top of the retry loop without its shutdown test
LoopCheck_unchecked(t) ==
    /\ thr[t].pc = "loop_check"
    /\ Goto(t, "single_check")
    /\ UNCHANGED <<shutdown, configVars, fault_budget, job, counterVars, coordVars,
                   futures, worker_states, events, attempts, hist, progress_budget>>

\* for attempt in range(max_attempts): if is_shutdown_requested(): ...
LoopCheck(t) ==
    /\ thr[t].pc = "loop_check"
    /\ IF shutdown
       THEN /\ job' = [job EXCEPT ![JobOf(t)] = mark_cancelled(@)]
            /\ Finish(t, CANCELLED)
            /\ attempts' = Logged(JobOf(t), "loop", "cancelled")
       ELSE /\ Goto(t, "single_check")
            /\ UNCHANGED <<job, futures, attempts>>
    /\ UNCHANGED <<shutdown, configVars, fault_budget, counterVars, coordVars,
                   worker_states, events, hist, progress_budget>>

\* ------------------------------------------------------ _download_single
\* shutdown check, mark_active, "started", TemporaryDirectory()
SingleCheck(t) ==
    /\ thr[t].pc = "single_check"
    /\ LET j == JobOf(t)
       IN IF shutdown
          THEN /\ job' = [job EXCEPT ![j] = mark_cancelled(@)]
               /\ Goto(t, "classify")
               /\ attempts' = Logged(j, "single", "cancelled")
               /\ UNCHANGED <<events, futures, fault_budget, hist>>
          ELSE /\ job' = [job EXCEPT ![j] = mark_active(@)]
               /\ events' = SendProgress(j, "started")
               /\ \/ /\ Goto(t, "fetch")
                     /\ hist' = [hist EXCEPT ![j].raised = None]
                     /\ UNCHANGED <<futures, attempts, fault_budget>>
                  \/ \* TemporaryDirectory() raises outside the try
                     /\ fault_budget > 0
                     /\ fault_budget' = fault_budget - 1
                     /\ \E e \in TempDirExceptions :
                          hist' = [hist EXCEPT ![j].raised = Some(e)]
                     /\ Finish(t, "exception")
                     /\ attempts' = Logged(j, "tempdir", "escaped")
    /\ UNCHANGED <<shutdown, configVars, counterVars, coordVars,
                   worker_states, progress_budget>>

\* download(url, progress_callback, output_dir) is called
FetchCall(t) ==
    /\ thr[t].pc = "fetch"
    /\ hist' = [hist EXCEPT ![JobOf(t)].fetchCalls = @ + 1]
    /\ Goto(t, "fetching")
    /\ UNCHANGED <<shutdown, configVars, fault_budget, job, counterVars, coordVars, futures,
                   worker_states, events, attempts, progress_budget>>

\* progress_callback(downloaded, total) while download() runs
ProgressCallback(t) ==
    /\ thr[t].pc = "fetching"
    /\ progress_budget > 0
    /\ \E in \in ProgressInputs :
         LET j == JobOf(t)
             downloaded == in[1]
             total == in[2]
             \* int((downloaded / total) * 100), exact for these inputs
             percent == (downloaded * 100) \div total
         IN /\ progress_budget' = progress_budget - 1
            /\ IF total > 0
               THEN /\ job' = [job EXCEPT ![j] = update_progress(@, percent)]
                    /\ events' = SendProgress(j, "progress")
               ELSE UNCHANGED <<job, events>>
    /\ UNCHANGED <<shutdown, configVars, fault_budget, counterVars, coordVars, futures,
                   worker_states, thr, attempts, hist>>

\* a failure branch without its "return False": the body goes on to the
\* conversion phase
FailAttempt_continues(t, phase, error, exc) ==
    LET j == JobOf(t)
    IN /\ fault_budget > 0
       /\ fault_budget' = fault_budget - 1
       /\ job' = [job EXCEPT ![j] = mark_failed(@, error)]
       /\ events' = SendProgress(j, "failed")
       /\ attempts' = Logged(j, phase, ErrorClass(error))
       /\ hist' = [hist EXCEPT ![j].failedEntries = @ + 1, ![j].raised = exc]
       /\ Goto(t, "mid_check")

\* the job fails inside _download_single with message error: mark_failed,
\* "failed" event, return False; exc is the message of the exception that
\* was caught, None when the failure was a returned result
FailAttempt(t, phase, error, exc) ==
    LET j == JobOf(t)
    IN /\ fault_budget > 0
       /\ fault_budget' = fault_budget - 1
       /\ job' = [job EXCEPT ![j] = mark_failed(@, error)]
       /\ events' = SendProgress(j, "failed")
       /\ attempts' = Logged(j, phase, ErrorClass(error))
       /\ hist' = [hist EXCEPT ![j].failedEntries = @ + 1, ![j].raised = exc]
       /\ Goto(t, "classify")

\* download() returns or raises
FetchReturn(t) ==
    /\ thr[t].pc = "fetching"
    /\ \E out \in FetchOutcomes :
         CASE out.kind = "ok" ->
                /\ job' = [job EXCEPT ![JobOf(t)].current_title = <<"T">>]
                /\ hist' = [hist EXCEPT ![JobOf(t)].fetchOk = @ + 1]
                /\ Goto(t, "mid_check")
                /\ UNCHANGED <<events, attempts, fault_budget>>
           [] out.kind = "fail" ->
                FailAttempt(t, "fetch", OrElse(out.error, DownloadFailedMsg), None)
           [] out.kind = "nofile" ->
                FailAttempt(t, "fetch", TempFileMsg, None)
           [] out.kind = "raise" ->
                FailAttempt(t, "fetch", out.error.text, out.error)
    /\ UNCHANGED <<shutdown, configVars, counterVars, coordVars, futures,
                   worker_states, progress_budget>>

\* the step after a successful download() without its shutdown test
MidCheck_unchecked(t) ==
    /\ thr[t].pc = "mid_check"
    /\ Goto(t, "convert")
    /\ UNCHANGED <<shutdown, configVars, fault_budget, job, counterVars, coordVars,
                   futures, worker_states, events, attempts, hist, progress_budget>>

\* shutdown check between fetch and convert
MidCheck(t) ==
    /\ thr[t].pc = "mid_check"
    /\ LET j == JobOf(t)
       IN IF shutdown
          THEN /\ job' = [job EXCEPT ![j] = mark_cancelled(@)]
               /\ Goto(t, "classify")
               /\ attempts' = Logged(j, "mid", "cancelled")
          ELSE /\ Goto(t, "convert")
               /\ UNCHANGED <<job, attempts>>
    /\ UNCHANGED <<shutdown, configVars, fault_budget, counterVars, coordVars, futures,
                   worker_states, events, hist, progress_budget>>

\* _convert_audio: transcode(temp_path, temp_output, ...) is called
ConvertCall(t) ==
    /\ thr[t].pc = "convert"
    /\ hist' = [hist EXCEPT ![JobOf(t)].convertCalls = @ + 1]
    /\ Goto(t, "converting")
    /\ UNCHANGED <<shutdown, configVars, fault_budget, job, counterVars, coordVars, futures,
                   worker_states, events, attempts, progress_budget>>

\* _convert_audio: transcode() returns or raises; on success the file is
\* renamed, mark_complete, "complete", and the body returns COMPLETE
ConvertReturn(t) ==
    /\ thr[t].pc = "converting"
    /\ LET j == JobOf(t)
       IN \/ /\ job' = [job EXCEPT ![j] = mark_complete(@, j)]
             /\ events' = SendProgress(j, "complete")
             /\ attempts' = Logged(j, "convert", "ok")
             /\ Finish(t, COMPLETE)
             /\ UNCHANGED <<hist, fault_budget>>
          \/ /\ \E e \in ConvertExceptions :
                   FailAttempt(t, "convert", ConversionFailedPrefix \o e, Some(e))
             /\ UNCHANGED futures
    /\ UNCHANGED <<shutdown, configVars, counterVars, coordVars,
                   worker_states, progress_budget>>

\* ------------------------------- _process_job_with_retry, after a failure
\* error = job.error_message or ""; the three "return FAILED" tests
ClassifyError(t) ==
    /\ thr[t].pc = "classify"
    /\ \E error \in {OrElse(job[JobOf(t)].error_message, << >>)} :
          IF is_permanent_error(error)
          THEN Finish(t, FAILED)
          ELSE IF ~is_retryable_error(error)
          THEN Finish(t, FAILED)
          ELSE IF ~should_retry(max_attempts, thr[t].attempt)
          THEN Finish(t, FAILED)
          ELSE /\ Goto(t, "sleeping")
               /\ UNCHANGED futures
    /\ UNCHANGED <<shutdown, configVars, fault_budget, job, counterVars, coordVars,
                   worker_states, events, attempts, hist, progress_budget>>

\* time.sleep(delay) returns; job.increment_retry(); next loop iteration
BackoffSleep(t) ==
    /\ thr[t].pc = "sleeping"
    /\ LET j == JobOf(t)
       IN /\ job' = [job EXCEPT ![j] = increment_retry(@)]
          /\ hist' = [hist EXCEPT ![j].sleeps = @ + 1]
          /\ IF thr[t].attempt + 1 < max_attempts
             THEN /\ thr' = [thr EXCEPT ![t].pc = "loop_check",
                                        ![t].attempt = @ + 1]
                  /\ UNCHANGED futures
             ELSE Finish(t, FAILED)
    /\ UNCHANGED <<shutdown, configVars, fault_budget, counterVars, coordVars,
                   worker_states, events, attempts, progress_budget>>

\* ------------------------------------------------- executor.py: WorkerPool
\* submit_job and submit without their shutdown tests
SubmitJob_unchecked(j, w, states, sig) ==
    [worker_states |-> [states EXCEPT ![w] = j],
     futures |-> Append(futures, [job |-> j, worker_id |-> w,
                                  state |-> "queued", result |-> "none"]),
     fut |-> Len(futures) + 1, shutdown |-> shutdown]

\* WorkerPool.submit_job(job, fn, worker_id) followed by WorkerPool.submit:
\* both test the shutdown flag, and sig says whether the signal handler runs
\* between the two tests.  fut is the id of the new Future, 0 for None.
SubmitJob(j, w, states, sig) ==
    IF shutdown
    THEN [worker_states |-> states, futures |-> futures, fut |-> 0,
          shutdown |-> shutdown]
    ELSE IF sig
    THEN [worker_states |-> [states EXCEPT ![w] = j], futures |-> futures,
          fut |-> 0, shutdown |-> TRUE]
    ELSE [worker_states |-> [states EXCEPT ![w] = j],
          futures |-> Append(futures, [job |-> j, worker_id |-> w,
                                       state |-> "queued", result |-> "none"]),
          fut |-> Len(futures) + 1, shutdown |-> shutdown]

\* WorkerPool.mark_worker_idle(worker_id)
mark_worker_idle(states, w) == [states EXCEPT ![w] = 0]

\* a pop that leaves the handled future in pending_futures
Pop_keeps(pending, f) == pending

\* pending_futures.pop(future)
Pop(pending, f) == SelectSeq(pending, LAMBDA g : g # f)

\* a job_index that is not advanced
next_job_index_stuck(i) == i

\* a job_index that skips a job
next_job_index_skips(i) == i + 2

\* job_index += 1
next_job_index(i) == i + 1

\* a new future that is not remembered
WithFuture_forgets(pending, fut) == pending

\* pending_futures after the submission returned future id fut (0 = None)
WithFuture(pending, fut) == IF fut = 0 THEN pending ELSE Append(pending, fut)

\* hist after job j was handed to the executor (fut # 0)
Dispatched(h, j, fut) ==
    IF fut = 0 THEN h ELSE [h EXCEPT ![j].dispatched = @ + 1]

\* ------------------------------------------------------- request.py
\* BatchResult.from_request(request)
from_request ==
    [total |-> nJobs,
     successful |-> Cardinality({ j \in 1..nJobs :
                        job[j].status = COMPLETE /\ job[j].output_path # NoPath }),
     failed |-> Cardinality({ j \in 1..nJobs : job[j].status = FAILED })]

\* ------------------------------------------------- BatchDownloader.run()
\* run() that clears the shutdown flag when it starts
RunStart_resets ==
    /\ cpc = "start"
    /\ shutdown' = FALSE
    /\ IF nJobs = 0
       THEN /\ result' = [total |-> 0, successful |-> 0, failed |-> 0]
            /\ cpc' = "done"
            /\ UNCHANGED effective_workers
       ELSE /\ effective_workers' = Min(max_workers, nJobs)
            /\ cpc' = "seed"
            /\ UNCHANGED result
    /\ UNCHANGED <<configVars, fault_budget, job, counterVars, job_index, seed_id,
                   pending_futures, done_futures, futures, worker_states, thr,
                   events, attempts, hist, progress_budget>>

\* empty batch, or effective_workers and entering the pool
RunStart ==
    /\ cpc = "start"
    /\ IF nJobs = 0
       THEN /\ result' = [total |-> 0, successful |-> 0, failed |-> 0]
            /\ cpc' = "done"
            /\ UNCHANGED effective_workers
       ELSE /\ effective_workers' = Min(max_workers, nJobs)
            /\ cpc' = "seed"
            /\ UNCHANGED result
    /\ UNCHANGED <<shutdown, configVars, fault_budget, job, counterVars, job_index, seed_id,
                   pending_futures, done_futures, futures, worker_states, thr,
                   events, attempts, hist, progress_budget>>

\* one iteration of "for worker_id in range(effective_workers)"
Seed ==
    /\ cpc = "seed"
    /\ IF seed_id < effective_workers
       THEN \E sig \in BOOLEAN :
              LET sub == IF job_index < nJobs
                         THEN SubmitJob(job_index + 1, seed_id, worker_states, sig)
                         ELSE [worker_states |-> worker_states,
                               futures |-> futures, fut |-> 0,
                               shutdown |-> shutdown]
              IN /\ worker_states' = sub.worker_states
                 /\ futures' = sub.futures
                 /\ shutdown' = sub.shutdown
                 /\ pending_futures' = WithFuture(pending_futures, sub.fut)
                 /\ hist' = Dispatched(hist, job_index + 1, sub.fut)
                 /\ job_index' = IF job_index < nJobs
                                 THEN next_job_index(job_index)
                                 ELSE job_index
                 /\ seed_id' = seed_id + 1
                 /\ UNCHANGED cpc
       ELSE /\ cpc' = "loop"
            /\ UNCHANGED <<shutdown, job_index, seed_id, pending_futures,
                           futures, worker_states, hist>>
    /\ UNCHANGED <<configVars, fault_budget, job, counterVars, effective_workers,
                   done_futures, thr, events, result, attempts, progress_budget>>

\* top of "while pending_futures": the loop condition and the shutdown test
LoopTop ==
    /\ cpc = "loop"
    /\ cpc' = IF pending_futures = << >> \/ shutdown THEN "exit" ELSE "scan"
    /\ UNCHANGED <<shutdown, configVars, fault_budget, job, counterVars, effective_workers,
                   job_index, seed_id, pending_futures, done_futures, futures,
                   worker_states, thr, events, result, attempts, hist,
                   progress_budget>>

\* the scan of pending_futures for finished futures; an empty scan sleeps
\* and goes back to the top of the loop
Scan ==
    /\ cpc = "scan"
    /\ LET done == SelectSeq(pending_futures,
                             LAMBDA f : futures[f].state = "done")
       IN IF done = << >>
          THEN /\ cpc' = "loop"
               /\ UNCHANGED done_futures
          ELSE /\ done_futures' = done
               /\ cpc' = "handle"
    /\ UNCHANGED <<shutdown, configVars, fault_budget, job, counterVars, effective_workers,
                   job_index, seed_id, pending_futures, futures, worker_states,
                   thr, events, result, attempts, hist, progress_budget>>

\* one iteration of "for future in done_futures"
Handle ==
    /\ cpc = "handle"
    /\ done_futures # << >>
    /\ \E sig \in BOOLEAN :
         LET f == Head(done_futures)
             j == futures[f].job
             w == futures[f].worker_id
             status == futures[f].result
             popped == Pop(pending_futures, f)
             idle == mark_worker_idle(worker_states, w)
             more == job_index < nJobs
             sub == IF more
                    THEN SubmitJob(job_index + 1, w, idle, sig)
                    ELSE [worker_states |-> idle, futures |-> futures,
                          fut |-> 0, shutdown |-> shutdown]
             counter == IF status = COMPLETE THEN "completed"
                        ELSE IF status = CANCELLED THEN "cancelled"
                        ELSE "failed"
             counted == [hist EXCEPT ![j].counted = @ + 1,
                                     ![j].countedAs = counter]
         IN /\ completed' = completed + (IF counter = "completed" THEN 1 ELSE 0)
            /\ cancelled' = cancelled + (IF counter = "cancelled" THEN 1 ELSE 0)
            /\ failed' = failed + (IF counter = "failed" THEN 1 ELSE 0)
            /\ worker_states' = sub.worker_states
            /\ futures' = sub.futures
            /\ shutdown' = sub.shutdown
            /\ pending_futures' = WithFuture(popped, sub.fut)
            /\ hist' = Dispatched(counted, job_index + 1, sub.fut)
            /\ job_index' = IF more THEN next_job_index(job_index) ELSE job_index
            /\ done_futures' = Tail(done_futures)
            /\ cpc' = IF Tail(done_futures) = << >> THEN "loop" ELSE "handle"
    /\ UNCHANGED <<configVars, fault_budget, job, effective_workers, seed_id, thr, events,
                   result, attempts, progress_budget>>

\* WorkerPool.__exit__: executor.shutdown(wait=True, cancel_futures=True)
\* first cancels every work item still in the queue ...
ExitCancel ==
    /\ cpc = "exit"
    /\ futures' = [f \in 1..Len(futures) |->
                     IF futures[f].state = "queued"
                     THEN [futures[f] EXCEPT !.state = "cancelled"]
                     ELSE futures[f]]
    /\ cpc' = "join"
    /\ UNCHANGED <<shutdown, configVars, fault_budget, job, counterVars, effective_workers,
                   job_index, seed_id, pending_futures, done_futures,
                   worker_states, thr, events, result, attempts, hist, progress_budget>>

\* ... then joins the pool threads; run() returns from_request(request)
ExitJoin ==
    /\ cpc = "join"
    /\ \A t \in Threads : thr[t].pc = "idle"
    /\ result' = from_request
    /\ cpc' = "done"
    /\ UNCHANGED <<shutdown, configVars, fault_budget, job, counterVars, effective_workers,
                   job_index, seed_id, pending_futures, done_futures, futures,
                   worker_states, thr, events, attempts, hist, progress_budget>>

\* ----------------------------------------------------------- environment
\* _signal_handler: SIGINT/SIGTERM arrives while run() is executing
RequestShutdown ==
    /\ cpc \notin {"start", "done"}
    /\ ~shutdown
    /\ shutdown' = TRUE
    /\ UNCHANGED <<configVars, fault_budget, job, counterVars, coordVars, futures,
                   worker_states, thr, events, attempts, hist, progress_budget>>

Worker(t) ==
    \/ PickUp(t)
    \/ LoopCheck(t)
    \/ SingleCheck(t)
    \/ FetchCall(t)
    \/ ProgressCallback(t)
    \/ FetchReturn(t)
    \/ MidCheck(t)
    \/ ConvertCall(t)
    \/ ConvertReturn(t)
    \/ ClassifyError(t)
    \/ BackoffSleep(t)

Next ==
    \/ RunStart
    \/ Seed
    \/ LoopTop
    \/ Scan
    \/ Handle
    \/ ExitCancel
    \/ ExitJoin
    \/ RequestShutdown
    \/ \E t \in Threads : Worker(t)

Spec == Init /\ [][Next]_vars

\* the thread that called run()
Coordinator ==
    RunStart \/ Seed \/ LoopTop \/ Scan \/ Handle \/ ExitCancel \/ ExitJoin

\* every thread keeps being scheduled and every download(), transcode() and
\* sleep() call returns; signals come or do not
FairSpec ==
    Spec /\ WF_vars(Coordinator) /\ \A t \in Threads : WF_vars(Worker(t))

\* ------------------------------------- WorkerPool used by a direct caller
\* what only run() and its job bodies use
runVars ==
    <<nJobs, max_workers, max_attempts, fault_budget, job, counterVars, coordVars,
      events, attempts, hist, progress_budget, initShutdown, caller, libVars>>

\* inside "with WorkerPool(max_workers) as pool:", nothing submitted yet; the
\* flag may be left set by an earlier batch
PoolInit ==
    /\ shutdown \in BOOLEAN
    /\ initShutdown = shutdown
    /\ nJobs = 0
    /\ max_workers \in 1..MaxWorkers
    /\ max_attempts = 1
    /\ fault_budget = 0
    /\ job = [j \in Jobs |-> NewJob]
    /\ completed = 0
    /\ failed = 0
    /\ cancelled = 0
    /\ cpc = "pool"
    /\ effective_workers = max_workers
    /\ job_index = 0
    /\ seed_id = 0
    /\ pending_futures = << >>
    /\ done_futures = << >>
    /\ futures = << >>
    /\ worker_states = [w \in WorkerIds |-> 0]
    /\ thr = [t \in Threads |-> IdleThread]
    /\ events = [j \in Jobs |-> << >>]
    /\ result = NoResult
    /\ attempts = [j \in Jobs |-> << >>]
    /\ hist = [j \in Jobs |-> NewHist]
    /\ progress_budget = 0
    /\ client = [NoClient EXCEPT !.pc = "open"]
    /\ LibIdle
    /\ caller = NoCall

\* WorkerPool.submit without its shutdown test
Submit_unchecked(x, w) ==
    [worker_states |-> worker_states,
     futures |-> Append(futures, [job |-> x, worker_id |-> w,
                                  state |-> "queued", result |-> "none"]),
     fut |-> Len(futures) + 1, shutdown |-> shutdown]

\* WorkerPool.submit(fn, x, worker_id=w) inside the with block: fut is the
\* id of the new Future, 0 for None; the future remembers w (self._futures)
Submit(x, w) ==
    IF shutdown
    THEN [worker_states |-> worker_states, futures |-> futures, fut |-> 0,
          shutdown |-> shutdown]
    ELSE [worker_states |-> worker_states,
          futures |-> Append(futures, [job |-> x, worker_id |-> w,
                                       state |-> "queued", result |-> "none"]),
          fut |-> Len(futures) + 1, shutdown |-> shutdown]

\* the caller submits one more task, by submit or by submit_job
PoolSubmit ==
    /\ client.pc = "open"
    /\ Len(futures) < MaxTasks
    /\ \E sub \in { Submit(Len(futures) + 1, w) : w \in WorkerIds \cup {NoWorker} }
                 \cup { SubmitJob(Len(futures) + 1, w, worker_states, sig) :
                           w \in WorkerIds, sig \in BOOLEAN } :
          /\ futures' = sub.futures
          /\ worker_states' = sub.worker_states
          /\ shutdown' = sub.shutdown
          /\ client' = [client EXCEPT !.last = sub.fut, !.lastSaw = shutdown]
    /\ UNCHANGED <<runVars, thr>>

\* WorkerPool.shutdown(): sets the flag, then
\* executor.shutdown(wait=False, cancel_futures=True)
PoolShutdown ==
    /\ client.pc = "open"
    /\ ~client.down
    /\ shutdown' = TRUE
    /\ futures' = [f \in 1..Len(futures) |->
                     IF futures[f].state = "queued"
                     THEN [futures[f] EXCEPT !.state = "cancelled"]
                     ELSE futures[f]]
    /\ client' = [client EXCEPT !.down = TRUE]
    /\ UNCHANGED <<runVars, worker_states, thr>>

\* a free pool thread takes the oldest queued work item and starts fn
PoolRun(t) ==
    /\ cpc = "pool"
    /\ t <= max_workers
    /\ thr[t].pc = "idle"
    /\ \A u \in 1..(t - 1) : thr[u].pc # "idle"
    /\ Queued # {}
    /\ LET f == CHOOSE g \in Queued : \A h \in Queued : g <= h
       IN /\ futures' = [futures EXCEPT ![f].state = "running"]
          /\ thr' = [thr EXCEPT ![t] = [pc |-> "fn", fut |-> f, attempt |-> 0]]
    /\ UNCHANGED <<runVars, shutdown, worker_states, client>>

\* fn returns a value or raises an Exception
PoolReturn(t) ==
    /\ thr[t].pc = "fn"
    /\ \E res \in {"value", "error"} : Finish(t, res)
    /\ UNCHANGED <<runVars, shutdown, worker_states, client>>

\* as_completed(futures) starts with set(futures)
AsCompletedSet(arg) == { arg[i] : i \in 1..Len(arg) }

\* the lists of futures of at most n entries, repetitions included
ListsOf(ids, n) == UNION { [1..k -> ids] : k \in 0..n }

\* wait_for_completion(futures) is called with futures the pool returned
WaitStart ==
    /\ client.pc = "open"
    /\ \E arg \in ListsOf(1..Len(futures), MaxListed) :
          client' = [client EXCEPT !.pc = "waiting", !.arg = arg,
                                   !.waitset = AsCompletedSet(arg),
                                   !.results = << >>, !.errors = << >>]
    /\ UNCHANGED <<runVars, shutdown, futures, worker_states, thr>>

\* a loop body that lets the exception of future.result() go
Collect_drops(c, f) ==
    IF futures[f].result = "value"
    THEN [c EXCEPT !.waitset = @ \ {f}, !.results = Append(@, f)]
    ELSE [c EXCEPT !.waitset = @ \ {f}]

\* the try/except of the loop body: future f's return value goes to
\* results, its exception goes to errors with the worker_id the pool
\* remembers for f
Collect(c, f) ==
    IF futures[f].result = "value"
    THEN [c EXCEPT !.waitset = @ \ {f}, !.results = Append(@, f)]
    ELSE [c EXCEPT !.waitset = @ \ {f},
                   !.errors = Append(@, <<futures[f].worker_id, f>>)]

\* one iteration of "for future in as_completed(futures)": a finished future
\* is yielded (one cancelled by executor.shutdown never is)
WaitCollect ==
    /\ client.pc = "waiting"
    /\ \E f \in client.waitset :
          /\ futures[f].state = "done"
          /\ worker_states' = IF futures[f].worker_id # NoWorker
                               THEN mark_worker_idle(worker_states,
                                                     futures[f].worker_id)
                               ELSE worker_states
          /\ client' = Collect(client, f)
    /\ UNCHANGED <<runVars, shutdown, futures, thr>>

\* as_completed is exhausted; wait_for_completion returns the completion
WaitReturn ==
    /\ client.pc = "waiting"
    /\ client.waitset = {}
    /\ client' = [client EXCEPT !.pc = "returned"]
    /\ UNCHANGED <<runVars, shutdown, futures, worker_states, thr>>

PoolNext ==
    \/ PoolSubmit
    \/ PoolShutdown
    \/ RequestShutdown
    \/ WaitStart
    \/ WaitCollect
    \/ WaitReturn
    \/ \E t \in Threads : PoolRun(t) \/ PoolReturn(t)

PoolSpec == PoolInit /\ [][PoolNext]_vars

\* ------------------------------------ DownloadJob used by a direct caller
\* current_percent given to the constructor and to update_progress
PercentInputs == { -10, 0, 50, 100, 150 }

\* error given to mark_failed
ErrorInputs == { <<"E","r","r","o","r">>, << >> }

\* output_path given to mark_complete
PathInputs == { 1 }

\* everything but the job and the record of the last call
otherVars ==
    <<shutdown, nJobs, max_workers, max_attempts, fault_budget, counterVars,
      coordVars, futures, worker_states, thr, events, attempts, hist,
      progress_budget, initShutdown, client, libVars>>

\* one DownloadJob constructed with a current_percent and a retry_count; no
\* batch, no pool
JobInit ==
    /\ shutdown = FALSE
    /\ initShutdown = shutdown
    /\ nJobs = 0
    /\ max_workers = 1
    /\ max_attempts = 1
    /\ fault_budget = 0
    /\ \E percent \in PercentInputs, retry_count \in 0..1 :
          \E given \in {[NewJob EXCEPT !.current_percent = percent,
                                       !.retry_count = retry_count]} :
             /\ job = [j \in Jobs |-> IF j = 1 THEN post_init(given) ELSE NewJob]
             /\ caller = [method |-> "__init__", arg |-> percent, before |-> given]
    /\ completed = 0
    /\ failed = 0
    /\ cancelled = 0
    /\ cpc = "job"
    /\ effective_workers = 0
    /\ job_index = 0
    /\ seed_id = 0
    /\ pending_futures = << >>
    /\ done_futures = << >>
    /\ futures = << >>
    /\ worker_states = [w \in WorkerIds |-> 0]
    /\ thr = [t \in Threads |-> IdleThread]
    /\ events = [j \in Jobs |-> << >>]
    /\ result = NoResult
    /\ attempts = [j \in Jobs |-> << >>]
    /\ hist = [j \in Jobs |-> NewHist]
    /\ progress_budget = 0
    /\ client = NoClient
    /\ LibIdle

\* the caller's record of a call made on the job
Called(method, arg) == [method |-> method, arg |-> arg, before |-> job[1]]

\* job.mark_active()
CallMarkActive ==
    /\ cpc = "job"
    /\ job' = [job EXCEPT ![1] = mark_active(@)]
    /\ caller' = Called("mark_active", 0)
    /\ UNCHANGED otherVars

\* job.mark_complete(output_path)
CallMarkComplete ==
    /\ cpc = "job"
    /\ \E path \in PathInputs :
          /\ job' = [job EXCEPT ![1] = mark_complete(@, path)]
          /\ caller' = Called("mark_complete", path)
    /\ UNCHANGED otherVars

\* job.mark_failed(error)
CallMarkFailed ==
    /\ cpc = "job"
    /\ \E error \in ErrorInputs :
          /\ job' = [job EXCEPT ![1] = mark_failed(@, error)]
          /\ caller' = Called("mark_failed", error)
    /\ UNCHANGED otherVars

\* job.mark_cancelled()
CallMarkCancelled ==
    /\ cpc = "job"
    /\ job' = [job EXCEPT ![1] = mark_cancelled(@)]
    /\ caller' = Called("mark_cancelled", 0)
    /\ UNCHANGED otherVars

\* job.update_progress(percent)
CallUpdateProgress ==
    /\ cpc = "job"
    /\ \E percent \in PercentInputs :
          /\ job' = [job EXCEPT ![1] = update_progress(@, percent)]
          /\ caller' = Called("update_progress", percent)
    /\ UNCHANGED otherVars

\* job.increment_retry()
CallIncrementRetry ==
    /\ cpc = "job"
    /\ job[1].retry_count < MaxRetryCount
    /\ job' = [job EXCEPT ![1] = increment_retry(@)]
    /\ caller' = Called("increment_retry", 0)
    /\ UNCHANGED otherVars

JobNext ==
    \/ CallMarkActive
    \/ CallMarkComplete
    \/ CallMarkFailed
    \/ CallMarkCancelled
    \/ CallUpdateProgress
    \/ CallIncrementRetry

JobSpec == JobInit /\ [][JobNext]_vars

\* ------------------------- the retry decision on a given error message
\* a message that matches no pattern
RandomMsg ==
    <<"S","o","m","e"," ","r","a","n","d","o","m"," ",
      "e","r","r","o","r"," ","m","e","s","s","a","g","e">>

\* phrases an error message is made of
Phrases == PERMANENT_PATTERNS \cup RETRYABLE_PATTERNS \cup {RandomMsg, DownloadFailedMsg}

\* two phrases with a blank between them
Join(a, b) == IF a = << >> THEN b ELSE a \o <<" ">> \o b

\* messages of at most n phrases
RECURSIVE Joined(_)
Joined(n) ==
    IF n = 0
    THEN { << >> }
    ELSE Joined(n - 1) \cup { Join(a, b) : a \in Joined(n - 1), b \in Phrases }

\* the messages explored, as written and in capitals
Messages == Joined(MaxJoined) \cup { Upper(m) : m \in Joined(MaxJoined) }

\* _process_job_with_retry called on one job whose first _download_single has
\* just returned False: with a message (mark_failed) or, after a shutdown
\* request, without one (mark_cancelled)
ClassifyInit ==
    /\ shutdown \in BOOLEAN
    /\ initShutdown = shutdown
    /\ nJobs = 1
    /\ max_workers = 1
    /\ max_attempts \in 1..MaxAttempts
    /\ fault_budget = 0
    /\ IF shutdown
       THEN job = [j \in Jobs |-> IF j = 1 THEN mark_cancelled(NewJob) ELSE NewJob]
       ELSE \E error \in Messages :
               job = [j \in Jobs |->
                         IF j = 1 THEN mark_failed(mark_active(NewJob), error)
                         ELSE NewJob]
    /\ completed = 0
    /\ failed = 0
    /\ cancelled = 0
    /\ cpc = "classify"
    /\ effective_workers = 1
    /\ job_index = 1
    /\ seed_id = 1
    /\ pending_futures = << >>
    /\ done_futures = << >>
    /\ futures = << [job |-> 1, worker_id |-> 0, state |-> "running",
                     result |-> "none"] >>
    /\ worker_states = [w \in WorkerIds |-> IF w = 0 THEN 1 ELSE 0]
    /\ thr = [t \in Threads |->
                 IF t = 1 THEN [pc |-> "classify", fut |-> 1, attempt |-> 0]
                 ELSE IdleThread]
    /\ events = [j \in Jobs |-> << >>]
    /\ result = NoResult
    /\ attempts = [j \in Jobs |-> << >>]
    /\ hist = [j \in Jobs |-> NewHist]
    /\ progress_budget = 0
    /\ client = NoClient
    /\ LibIdle
    /\ caller = NoCall

ClassifyNext == \E t \in Threads : ClassifyError(t) \/ BackoffSleep(t)

ClassifySpec == ClassifyInit /\ [][ClassifyNext]_vars

\* ------------------------------------- RetryConfig used by a direct caller
\* 2**n
RECURSIVE Pow2(_)
Pow2(n) == IF n = 0 THEN 1 ELSE 2 * Pow2(n - 1)

\* RetryConfig.__post_init__ without the max_delay test
RetryConfig_post_init_no_max(config) ==
    IF config.max_attempts < 1 THEN "error"
    ELSE IF config.max_attempts > 10 THEN "error"
    ELSE IF config.base_delay < 0 THEN "error"
    ELSE "ok"

\* RetryConfig.__post_init__: "error" when it raises ValueError
RetryConfig_post_init(config) ==
    IF config.max_attempts < 1 THEN "error"
    ELSE IF config.max_attempts > 10 THEN "error"
    ELSE IF config.base_delay < 0 THEN "error"
    ELSE IF config.max_delay < config.base_delay THEN "error"
    ELSE "ok"

\* delay_for_attempt without the cap
delay_for_attempt_uncapped(config, attempt, uniform) ==
    LET a == IF attempt < 0 THEN 0 ELSE attempt
        delay == config.base_delay * Pow2(a)
    IN IF config.jitter THEN delay + uniform ELSE delay

\* RetryConfig.delay_for_attempt(attempt); uniform is what random.uniform(0, 1)
\* returns
delay_for_attempt(config, attempt, uniform) ==
    LET a == IF attempt < 0 THEN 0 ELSE attempt
        delay == Min(config.base_delay * Pow2(a), config.max_delay)
    IN IF config.jitter THEN delay + uniform ELSE delay

\* everything but the RetryConfig
retryRest ==
    <<shutdown, nJobs, max_workers, max_attempts, fault_budget, job, counterVars,
      coordVars, futures, worker_states, thr, events, attempts, hist,
      progress_budget, initShutdown, client, caller, max_retries, yielded,
      files, final_output_path>>

\* RetryConfig(max_attempts, base_delay, max_delay, jitter) is being called
RetryInit ==
    /\ shutdown = FALSE
    /\ initShutdown = shutdown
    /\ nJobs = 0
    /\ max_workers = 1
    /\ max_attempts = 1
    /\ fault_budget = 0
    /\ job = [j \in Jobs |-> NewJob]
    /\ completed = 0
    /\ failed = 0
    /\ cancelled = 0
    /\ cpc = "retry"
    /\ effective_workers = 0
    /\ job_index = 0
    /\ seed_id = 0
    /\ pending_futures = << >>
    /\ done_futures = << >>
    /\ futures = << >>
    /\ worker_states = [w \in WorkerIds |-> 0]
    /\ thr = [t \in Threads |-> IdleThread]
    /\ events = [j \in Jobs |-> << >>]
    /\ result = NoResult
    /\ attempts = [j \in Jobs |-> << >>]
    /\ hist = [j \in Jobs |-> NewHist]
    /\ progress_budget = 0
    /\ client = NoClient
    /\ caller = NoCall
    /\ \E given_attempts \in 0..MaxGivenAttempts,
          base_delay \in -1..MaxBaseDelay,
          max_delay \in 0..MaxMaxDelay,
          jitter \in BOOLEAN :
          retry_config =
             [max_attempts |-> given_attempts, base_delay |-> base_delay,
              max_delay |-> max_delay, jitter |-> jitter,
              built |-> "given", attempt |-> 0, delay |-> 0]
    /\ max_retries = 0
    /\ yielded = NoIteration
    /\ files = {}
    /\ final_output_path = [t \in Threads |-> NoFinal]

\* the constructor returns the config or raises
Construct ==
    /\ cpc = "retry"
    /\ retry_config.built = "given"
    /\ retry_config' = [retry_config EXCEPT !.built = RetryConfig_post_init(retry_config)]
    /\ UNCHANGED retryRest

\* config.delay_for_attempt(attempt) on a constructed config
DelayForAttempt ==
    /\ cpc = "retry"
    /\ retry_config.built \in {"ok", "asked"}
    /\ \E attempt \in -1..MaxAttemptArg, uniform \in 0..TicksPerSecond :
          retry_config' =
             [retry_config EXCEPT
                 !.built = "asked",
                 !.attempt = attempt,
                 !.delay = delay_for_attempt(retry_config, attempt, uniform)]
    /\ UNCHANGED retryRest

RetryNext == Construct \/ DelayForAttempt

RetrySpec == RetryInit /\ [][RetryNext]_vars

\* ---------------------------- BatchRequest.pending_jobs by a direct caller
\* the message of the failed jobs given to the request
TimeoutMsg == <<"T","i","m","e","o","u","t">>

\* a job brought to a status and a retry_count before the request is made
JobIn(status, retry_count) ==
    [NewJob EXCEPT !.status = status, !.retry_count = retry_count,
                   !.error_message = IF status = FAILED THEN Some(TimeoutMsg) ELSE None,
                   !.output_path = IF status = COMPLETE THEN 1 ELSE NoPath]

\* pending_jobs: is_pending or is_retryable
is_pending_or_retryable(j, retries) ==
    LET is_pending == j.status = PENDING
        is_retryable == j.status = FAILED /\ j.retry_count < retries
    IN is_pending \/ is_retryable

\* everything but the jobs' iteration
requestRest ==
    <<shutdown, nJobs, max_workers, max_attempts, fault_budget, job, counterVars,
      coordVars, futures, worker_states, thr, events, attempts, hist,
      progress_budget, initShutdown, client, caller, retry_config, max_retries,
      files, final_output_path>>

\* BatchRequest(jobs, max_retries) with jobs in any status
RequestInit ==
    /\ shutdown = FALSE
    /\ initShutdown = shutdown
    /\ nJobs \in 0..NumJobs
    /\ max_workers = 1
    /\ max_attempts = 1
    /\ fault_budget = 0
    /\ \E statuses \in [Jobs -> {PENDING, ACTIVE} \cup TERMINAL],
          counts \in [Jobs -> 0..MaxRetryCount] :
          job = [j \in Jobs |-> IF j <= nJobs THEN JobIn(statuses[j], counts[j])
                                           ELSE NewJob]
    /\ completed = 0
    /\ failed = 0
    /\ cancelled = 0
    /\ cpc = "request"
    /\ effective_workers = 0
    /\ job_index = 0
    /\ seed_id = 0
    /\ pending_futures = << >>
    /\ done_futures = << >>
    /\ futures = << >>
    /\ worker_states = [w \in WorkerIds |-> 0]
    /\ thr = [t \in Threads |-> IdleThread]
    /\ events = [j \in Jobs |-> << >>]
    /\ result = NoResult
    /\ attempts = [j \in Jobs |-> << >>]
    /\ hist = [j \in Jobs |-> NewHist]
    /\ progress_budget = 0
    /\ client = NoClient
    /\ caller = NoCall
    /\ retry_config = NoConfig
    /\ max_retries \in 0..MaxRetryCount
    /\ yielded = NoIteration
    /\ files = {}
    /\ final_output_path = [t \in Threads |-> NoFinal]

\* the caller starts iterating request.pending_jobs()
PendingJobsStart ==
    /\ cpc = "request"
    /\ yielded.pos = -1
    /\ yielded' = [pos |-> 0, out |-> << >>]
    /\ UNCHANGED requestRest

\* the generator looks at the next job of self.jobs and yields it or not;
\* the caller receives the job as it is
PendingJobsNext ==
    /\ cpc = "request"
    /\ yielded.pos >= 0
    /\ yielded.pos < nJobs
    /\ LET j == yielded.pos + 1
       IN yielded' =
             [pos |-> j,
              out |-> IF is_pending_or_retryable(job[j], max_retries)
                      THEN Append(yielded.out, [job |-> j, status |-> job[j].status])
                      ELSE yielded.out]
    /\ UNCHANGED requestRest

RequestNext == PendingJobsStart \/ PendingJobsNext

RequestSpec == RequestInit /\ [][RequestNext]_vars

\* ------------------------------------- _convert_audio run by pool threads
\* resolve_conflict: max_attempts
ConflictLimit == 9999

\* sanitize(result.title) of the downloads
Titles == { <<"a">>, <<"b">> }

\* output_dir / f"{sanitized_title}.{audio_format}"; suffix lists the
\* " (counter)" parts appended so far, 0 standing for "_<timestamp>"
PathOf(title) == [title |-> title, suffix |-> << >>]

\* path.exists()
Exists(path) == \E f \in files : f.path = path

\* path with " (counter)" before the extension
Numbered(path, counter) == [path EXCEPT !.suffix = Append(@, counter)]

\* resolve_conflict(path)
resolve_conflict(path) ==
    IF ~Exists(path)
    THEN path
    ELSE IF \E counter \in 1..ConflictLimit : ~Exists(Numbered(path, counter))
         THEN Numbered(path,
                       CHOOSE counter \in 1..ConflictLimit :
                          /\ ~Exists(Numbered(path, counter))
                          /\ \A c \in 1..(counter - 1) : Exists(Numbered(path, c)))
         ELSE Numbered(path, 0)

\* temp_output_path.replace(final_output_path) by job j: the directory after
\* it, an existing file of that name being replaced
Replaced(path, j) ==
    { f \in files : f.path # path } \cup { [path |-> path, owner |-> j] }

\* a lock that is never held
rename_lock_free_always(t) == TRUE

\* self._rename_lock is not held by another thread
rename_lock_free(t) == \A u \in Threads \ {t} : thr[u].pc # "locked"

\* everything _convert_audio leaves alone
convertRest ==
    <<shutdown, nJobs, max_workers, max_attempts, initShutdown, client, caller,
      retry_config, max_retries, yielded, counterVars, coordVars, worker_states,
      progress_budget>>

\* every pool thread is about to call _convert_audio for its own job, whose
\* download gave a title; the output directory may hold files already
FileInit ==
    /\ shutdown = FALSE
    /\ initShutdown = shutdown
    /\ nJobs = MaxWorkers
    /\ max_workers = MaxWorkers
    /\ max_attempts = 1
    /\ fault_budget = 1
    /\ \E titles \in [Threads -> Titles] :
          job = [j \in Jobs |->
                    IF j \in Threads
                    THEN [mark_active(NewJob) EXCEPT !.current_title = titles[j]]
                    ELSE NewJob]
    /\ completed = 0
    /\ failed = 0
    /\ cancelled = 0
    /\ cpc = "files"
    /\ effective_workers = MaxWorkers
    /\ job_index = MaxWorkers
    /\ seed_id = MaxWorkers
    /\ pending_futures = << >>
    /\ done_futures = << >>
    /\ futures = [t \in Threads |-> [job |-> t, worker_id |-> t - 1,
                                     state |-> "running", result |-> "none"]]
    /\ worker_states = [w \in WorkerIds |-> w + 1]
    /\ thr = [t \in Threads |-> [pc |-> "convert", fut |-> t, attempt |-> 0]]
    /\ events = [j \in Jobs |-> << >>]
    /\ result = NoResult
    /\ attempts = [j \in Jobs |-> << >>]
    /\ hist = [j \in Jobs |-> NewHist]
    /\ progress_budget = 0
    /\ client = NoClient
    /\ caller = NoCall
    /\ retry_config = NoConfig
    /\ max_retries = 0
    /\ yielded = NoIteration
    /\ \E n \in 0..MaxPreexisting :
          files = { [path |-> [title |-> <<"a">>, suffix |-> [i \in 1..k |-> 1]],
                     owner |-> 0] : k \in 0..(n - 1) }
    /\ final_output_path = [t \in Threads |-> NoFinal]

\* final_output_path = resolve_conflict(output_dir / title.format), before
\* the conversion and outside the lock
ResolveFinal(t) ==
    /\ cpc = "files"
    /\ thr[t].pc = "convert"
    /\ final_output_path' =
          [final_output_path EXCEPT
              ![t] = resolve_conflict(PathOf(job[JobOf(t)].current_title))]
    /\ Goto(t, "transcoding")
    /\ UNCHANGED <<convertRest, fault_budget, job, futures, events, attempts, hist,
                   files>>

\* transcode(temp_path, temp_output_path, ...) returns or raises
Transcode(t) ==
    /\ cpc = "files"
    /\ thr[t].pc = "transcoding"
    /\ \/ /\ Goto(t, "lock")
          /\ UNCHANGED <<fault_budget, job, events, attempts, hist>>
       \/ \E e \in ConvertExceptions :
             FailAttempt(t, "convert", ConversionFailedPrefix \o e, Some(e))
    /\ UNCHANGED <<convertRest, futures, files, final_output_path>>

\* with self._rename_lock: if final_output_path.exists(): resolve_conflict
EnterLock(t) ==
    /\ cpc = "files"
    /\ thr[t].pc = "lock"
    /\ rename_lock_free(t)
    /\ final_output_path' =
          [final_output_path EXCEPT
              ![t] = IF Exists(@) THEN resolve_conflict(@) ELSE @]
    /\ Goto(t, "locked")
    /\ UNCHANGED <<convertRest, fault_budget, job, futures, events, attempts, hist,
                   files>>

\* temp_output_path.replace(final_output_path); the lock is released;
\* _download_single: mark_complete(output_path), "complete", return True
RenameAndLeave(t) ==
    /\ cpc = "files"
    /\ thr[t].pc = "locked"
    /\ LET j == JobOf(t)
       IN /\ files' = Replaced(final_output_path[t], j)
          /\ job' = [job EXCEPT ![j] = mark_complete(@, final_output_path[t])]
          /\ events' = SendProgress(j, "complete")
          /\ attempts' = Logged(j, "convert", "ok")
          /\ Finish(t, COMPLETE)
    /\ UNCHANGED <<convertRest, fault_budget, hist, final_output_path>>

FileNext ==
    \E t \in Threads :
        ResolveFinal(t) \/ Transcode(t) \/ EnterLock(t) \/ RenameAndLeave(t)

FileSpec == FileInit /\ [][FileNext]_vars

\* ------------------------------------------------------- download_batch
\* BatchRequest.__post_init__: "error" when it raises ValueError
BatchRequest_post_init(workers, retries) ==
    IF workers < 1 THEN "error"
    ELSE IF workers > 16 THEN "error"
    ELSE IF retries < 0 THEN "error"
    ELSE IF retries > 10 THEN "error"
    ELSE "ok"

\* download_batch([url], output_dir, max_workers=..., max_retries=...) has
\* just been called; the download may fail in every attempt
BatchInit ==
    /\ shutdown \in BOOLEAN
    /\ initShutdown = shutdown
    /\ nJobs = 1
    /\ max_workers \in {1, MaxGivenWorkers}
    /\ max_retries \in {0, 1, 2, MaxGivenRetries}
    /\ max_attempts = NoConfig.max_attempts
    /\ fault_budget = max_retries + 1
    /\ job = [j \in Jobs |-> NewJob]
    /\ completed = 0
    /\ failed = 0
    /\ cancelled = 0
    /\ cpc = "batch"
    /\ effective_workers = 0
    /\ job_index = 0
    /\ seed_id = 0
    /\ pending_futures = << >>
    /\ done_futures = << >>
    /\ futures = << >>
    /\ worker_states = [w \in WorkerIds |-> 0]
    /\ thr = [t \in Threads |-> IdleThread]
    /\ events = [j \in Jobs |-> << >>]
    /\ result = NoResult
    /\ attempts = [j \in Jobs |-> << >>]
    /\ hist = [j \in Jobs |-> NewHist]
    /\ progress_budget = MaxProgress
    /\ client = NoClient
    /\ caller = NoCall
    /\ retry_config = NoConfig
    /\ yielded = NoIteration
    /\ files = {}
    /\ final_output_path = [t \in Threads |-> NoFinal]

\* request = BatchRequest(max_workers, max_retries); add_job;
\* retry_config = RetryConfig(max_attempts=max_retries + 1);
\* BatchDownloader(...).run() is entered unless a constructor raised
DownloadBatch ==
    /\ cpc = "batch"
    /\ LET config == [NoConfig EXCEPT !.max_attempts = max_retries + 1]
           built == IF BatchRequest_post_init(max_workers, max_retries) = "error"
                    THEN "error"
                    ELSE RetryConfig_post_init(config)
       IN /\ retry_config' = [config EXCEPT !.built = built]
          /\ max_attempts' = IF built = "ok" THEN config.max_attempts ELSE max_attempts
          /\ cpc' = IF built = "ok" THEN "start" ELSE "error"
    /\ UNCHANGED <<shutdown, nJobs, max_workers, initShutdown, client, caller,
                   max_retries, yielded, files, final_output_path, fault_budget,
                   job, counterVars, effective_workers, job_index, seed_id,
                   pending_futures, done_futures, result, futures, worker_states,
                   thr, events, attempts, hist, progress_budget>>

BatchNext == DownloadBatch \/ Next

BatchSpec == BatchInit /\ [][BatchNext]_vars

TypeOK ==
    /\ shutdown \in BOOLEAN
    /\ cpc \in {"start", "seed", "loop", "scan", "handle", "exit", "join", "done",
                "pool", "job", "classify", "retry", "request", "files", "batch",
                "error"}
    /\ \A j \in Jobs : job[j].status \in {PENDING, ACTIVE} \cup TERMINAL
    /\ \A t \in Threads : thr[t].fut \in 0..Len(futures)

\* ------------------------------------------------------------ properties
\* the jobs of the batch
Batch == 1..nJobs

\* no download(), transcode() or TemporaryDirectory() has failed so far
NoFaults == fault_budget = FaultsFor(nJobs)

\* futures submitted and not yet resolved
InFlight == { f \in 1..Len(futures) : futures[f].state \in {"queued", "running"} }

\* the body of job j has returned
Returned(j) == \E f \in 1..Len(futures) : futures[f].job = j /\ futures[f].state = "done"

\* C1: when run() has returned, no fetch, convert or temp-dir creation has
\* failed and shutdown was never requested, every job is Complete and the
\* result is total = N, successful = N, failed = 0 (for every max_workers,
\* W < N included).
C1_AllSucceed ==
    (cpc = "done" /\ ~shutdown /\ NoFaults) =>
        /\ \A j \in Batch : job[j].status = COMPLETE
        /\ result = [total |-> nJobs, successful |-> nJobs, failed |-> 0]

\* a fault-free run of NumJobs jobs on fewer workers has returned
C1_Witness ==
    /\ cpc = "done" /\ ~shutdown /\ NoFaults
    /\ nJobs = NumJobs /\ max_workers = MaxWorkers /\ max_workers < nJobs
    /\ result.successful = nJobs

\* C2 as claimed: Complete, Failed and Cancelled are never left and no job
\* enters Failed more than once.
C2_TerminalIncludingFailed ==
    [][\A j \in Jobs :
          /\ job[j].status \in TERMINAL => job'[j].status = job[j].status
          /\ hist'[j].failedEntries <= 1]_vars

\* C2 amended: Complete and Cancelled are never left; Failed is left only
\* for Pending with retry_count + 1 (increment_retry after the backoff
\* sleep); a job enters Failed at most max_attempts times.
C2_TerminalExceptRetry ==
    [][\A j \in Jobs :
          /\ job[j].status \in {COMPLETE, CANCELLED} =>
                job'[j].status = job[j].status
          /\ (job[j].status = FAILED /\ job'[j].status # FAILED) =>
                /\ job'[j].status = PENDING
                /\ job'[j].retry_count = job[j].retry_count + 1
                /\ hist'[j].sleeps = hist[j].sleeps + 1
          /\ hist'[j].failedEntries <= max_attempts]_vars

\* a job that was Failed, was retried and is now Complete
C2_Witness ==
    \E j \in Batch : job[j].status = COMPLETE /\ hist[j].failedEntries >= 1

\* C3: completed + failed + cancelled <= total in every state, and every job
\* is counted at most once, in exactly one counter.
C3_CountersBounded ==
    /\ completed + failed + cancelled <= nJobs
    /\ \A j \in Jobs : hist[j].counted <= 1
    /\ completed + failed + cancelled
         = Cardinality({ j \in Jobs : hist[j].counted >= 1 })

\* every job of a full batch has been counted, in more than one counter
C3_Witness ==
    /\ nJobs = NumJobs
    /\ completed + failed + cancelled = nJobs
    /\ completed > 0 /\ failed > 0

\* C4: every job is handed to the pool at most once, no two pool threads
\* execute the same job, and a retried job still has a single submission.
C4_SingleWriter ==
    /\ \A j \in Jobs : hist[j].dispatched <= 1
    /\ \A j \in Jobs :
         Cardinality({ f \in 1..Len(futures) : futures[f].job = j }) <= 1
    /\ \A t, u \in Threads :
         (t # u /\ thr[t].fut # 0 /\ thr[u].fut # 0) => JobOf(t) # JobOf(u)
    /\ \A j \in Jobs : job[j].retry_count > 0 => hist[j].dispatched = 1

\* two pool threads are busy and one of their jobs is on its second attempt
C4_Witness ==
    /\ \A t \in Threads : thr[t].fut # 0
    /\ \E t \in Threads : job[JobOf(t)].retry_count = 1 /\ thr[t].pc = "fetching"

\* C5: at most min(max_workers, number of jobs) submissions are in flight,
\* and no worker_id has two of them.
C5_BoundedConcurrency ==
    /\ Cardinality(InFlight) <= (IF max_workers < nJobs THEN max_workers ELSE nJobs)
    /\ \A f, g \in InFlight :
         futures[f].worker_id = futures[g].worker_id => f = g
    /\ Cardinality({ t \in Threads : thr[t].fut # 0 }) <= Cardinality(InFlight)

\* the pool is full while a job is still waiting to be dispatched
C5_Witness ==
    /\ max_workers = MaxWorkers /\ nJobs > max_workers
    /\ Cardinality(InFlight) = max_workers
    /\ \A t \in Threads : thr[t].pc = "fetching"
    /\ job_index < nJobs

\* attempts of job j that ended in a retryable failure of download()
RetryableFetchFails(j) ==
    Cardinality({ i \in 1..Len(attempts[j]) :
        attempts[j][i] = [phase |-> "fetch", class |-> "retryable"] })

\* job j saw nothing but retryable download() failures and successes
OnlyRetryableFetchFails(j) ==
    \A i \in 1..Len(attempts[j]) :
        attempts[j][i] \in { [phase |-> "fetch", class |-> "retryable"],
                            [phase |-> "convert", class |-> "ok"] }

\* every attempt of job j failed with a retryable message
AllRetryable(j) ==
    /\ attempts[j] # << >>
    /\ \A i \in 1..Len(attempts[j]) :
         /\ attempts[j][i].phase \in {"fetch", "convert"}
         /\ attempts[j][i].class = "retryable"

\* C6: a job whose download() failed k times with a retryable message and
\* otherwise succeeded, k <= max_attempts - 1, returns Complete after exactly
\* k + 1 download() calls and k backoff sleeps; every download() call after
\* the first comes after one more sleep.
C6_RetryThenSucceed ==
    \A j \in Batch :
        /\ hist[j].fetchCalls <= hist[j].sleeps + 1
        /\ (Returned(j) /\ OnlyRetryableFetchFails(j)
              /\ RetryableFetchFails(j) <= max_attempts - 1) =>
             /\ job[j].status = COMPLETE
             /\ hist[j].fetchCalls = RetryableFetchFails(j) + 1
             /\ hist[j].sleeps = RetryableFetchFails(j)

\* a job returned Complete after max_attempts - 1 retryable failures
C6_Witness ==
    \E j \in Batch :
        /\ Returned(j) /\ ~shutdown /\ max_attempts = MaxAttempts
        /\ OnlyRetryableFetchFails(j)
        /\ RetryableFetchFails(j) = max_attempts - 1
        /\ job[j].status = COMPLETE

\* C7: an attempt that fails with a permanent or unknown message is the
\* job's last: the job is Failed, no sleep follows and download() is not
\* called again; failing so at the first attempt leaves exactly one call.
C7_NoRetryOnPermanentOrUnknown ==
    \A j \in Batch : \A i \in 1..Len(attempts[j]) :
        (/\ attempts[j][i].phase \in {"fetch", "convert"}
         /\ attempts[j][i].class \in {"permanent", "unknown"}) =>
            /\ i = Len(attempts[j])
            /\ job[j].status = FAILED
            /\ hist[j].fetchCalls = i
            /\ hist[j].sleeps = i - 1
            /\ \A t \in Threads :
                 (thr[t].fut # 0 /\ JobOf(t) = j) => thr[t].pc = "classify"

\* a job returned Failed after one download() that raised an empty message,
\* although a second attempt was allowed
C7_Witness ==
    \E j \in Batch :
        /\ Returned(j) /\ max_attempts = MaxAttempts /\ max_attempts > 1
        /\ attempts[j] = << [phase |-> "fetch", class |-> "unknown"] >>
        /\ job[j].error_message = Some(<< >>)
        /\ job[j].status = FAILED /\ hist[j].fetchCalls = 1

\* C8: download() is called at most max_attempts times per job; a job whose
\* every attempt failed with a retryable message returns Failed after exactly
\* max_attempts attempts; should_retry(a) is true exactly for
\* a in 0 .. max_attempts - 2.
C8_AtMostMaxAttempts ==
    /\ \A j \in Batch :
         /\ hist[j].fetchCalls <= max_attempts
         /\ (Returned(j) /\ AllRetryable(j)) =>
              /\ Len(attempts[j]) = max_attempts
              /\ hist[j].fetchCalls = max_attempts
              /\ job[j].status = FAILED
    /\ \A a \in 0..(MaxAttempts + 1) :
         should_retry(max_attempts, a) <=> a <= max_attempts - 2

\* a job used up all its attempts on retryable failures
C8_Witness ==
    \E j \in Batch :
        /\ Returned(j) /\ ~shutdown /\ AllRetryable(j)
        /\ max_attempts = MaxAttempts /\ max_attempts > 1
        /\ hist[j].fetchCalls = max_attempts
        /\ job[j].status = FAILED

\* C9: once shutdown is set, a job not yet submitted is never submitted and
\* never has download() or transcode() called; a job never submitted has no
\* such call; a body that has not passed its shutdown tests when the flag is
\* set never reaches download(); and a run() entered with shutdown set
\* returns total = N, successful = 0 without any download() call.
C9_NoWorkAfterShutdown ==
    [][/\ \A j \in Jobs :
            /\ (shutdown /\ hist[j].dispatched = 0) => hist'[j].dispatched = 0
            /\ hist'[j].dispatched = 0 =>
                  (hist'[j].fetchCalls = 0 /\ hist'[j].convertCalls = 0)
       /\ \A t \in Threads :
            (shutdown /\ thr[t].pc \in {"idle", "loop_check", "single_check"})
                => thr'[t].pc # "fetch"
       /\ (initShutdown /\ cpc' = "done") =>
            /\ \A j \in Jobs : hist'[j].fetchCalls = 0
            /\ result'.total = nJobs
            /\ result'.successful = 0]_vars

\* run() returned after a shutdown requested in mid-run: one job was
\* downloaded, another was never submitted
C9_Witness ==
    /\ cpc = "done" /\ shutdown /\ ~initShutdown
    /\ \E j \in Batch : hist[j].fetchCalls > 0
    /\ \E j \in Batch : hist[j].dispatched = 0

\* C10 as claimed: a run() entered with shutdown set leaves every job
\* Cancelled.
C10_AllCancelled ==
    (cpc = "done" /\ initShutdown) => \A j \in Batch : job[j].status = CANCELLED

\* attempts of job j that got as far as transcode()
ConvertEntries(j) ==
    Cardinality({ i \in 1..Len(attempts[j]) : attempts[j][i].phase = "convert" })

\* jobs whose last attempt was abandoned between download() and transcode()
MidCancelled ==
    { j \in Batch : /\ attempts[j] # << >>
                    /\ attempts[j][Len(attempts[j])] =
                          [phase |-> "mid", class |-> "cancelled"] }

\* C11: a body that finds shutdown set after its download() succeeded does
\* not call transcode() and marks the job Cancelled; from then on the job
\* stays Cancelled, transcode() is not called in that attempt or later, and
\* the BatchResult counts the job neither as successful nor as failed.
C11_MidShutdownCancels ==
    [][/\ \A t \in Threads :
            (thr[t].pc = "mid_check" /\ shutdown) =>
                /\ thr'[t].pc \notin {"convert", "converting"}
                /\ hist'[JobOf(t)].convertCalls = hist[JobOf(t)].convertCalls
                /\ thr'[t] # thr[t] => job'[JobOf(t)].status = CANCELLED
       /\ \A j \in MidCancelled :
            /\ job[j].status = CANCELLED /\ job'[j].status = CANCELLED
            /\ hist'[j].convertCalls = ConvertEntries(j)
            /\ hist'[j].fetchCalls = hist[j].fetchCalls
       /\ cpc' = "done" =>
            result'.successful + result'.failed + Cardinality(MidCancelled)
                <= nJobs]_vars

\* run() returned after a job was abandoned between its only download()
\* and transcode()
C11_Witness ==
    /\ cpc = "done" /\ ~initShutdown
    /\ \E j \in MidCancelled :
         /\ hist[j].fetchCalls = 1 /\ hist[j].fetchOk = 1
         /\ hist[j].convertCalls = 0
         /\ job[j].status = CANCELLED

\* positions of a body from which, once shutdown is set, no download() or
\* transcode() call can start any more
PastLastCall ==
    {"idle", "loop_check", "single_check", "fetching", "mid_check",
     "converting", "classify", "sleeping"}

\* C12: once shutdown is set it stays set, and from then on a pool thread
\* starts a download() or transcode() only from a position where it has
\* already passed the shutdown test for that call, and after that call it
\* starts no other (one further operation at most); from every other
\* position it starts none before its body returns, a backoff sleep that
\* ends is followed by the loop-top test and not by a new attempt, and a
\* thread that picks up another job starts none either.
C12_CooperativeCancellation ==
    [][shutdown =>
         /\ shutdown'
         /\ \A t \in Threads :
              /\ thr[t].pc \in PastLastCall => thr'[t].pc \in PastLastCall
              /\ thr[t].pc = "fetch" => thr'[t].pc \in {"fetch", "fetching"}
              /\ thr[t].pc = "convert" => thr'[t].pc \in {"convert", "converting"}
              /\ thr[t].pc = "sleeping" =>
                    thr'[t].pc \in {"sleeping", "loop_check", "idle"}
              /\ thr[t].pc = "loop_check" =>
                    thr'[t].pc \in {"loop_check", "idle"}
         /\ \A j \in Jobs :
              /\ hist'[j].fetchCalls # hist[j].fetchCalls =>
                    /\ hist'[j].fetchCalls = hist[j].fetchCalls + 1
                    /\ hist'[j].convertCalls = hist[j].convertCalls
                    /\ \E t \in Threads :
                         /\ thr[t].pc = "fetch" /\ JobOf(t) = j
                         /\ thr'[t].pc = "fetching"
              /\ hist'[j].convertCalls # hist[j].convertCalls =>
                    /\ hist'[j].convertCalls = hist[j].convertCalls + 1
                    /\ \E t \in Threads :
                         /\ thr[t].pc = "convert" /\ JobOf(t) = j
                         /\ thr'[t].pc = "converting"]_vars

\* shutdown is set; one job's backoff sleep ended after the request and the
\* job was cancelled without a second attempt, while another thread is about
\* to start the one download() it had passed the test for
C12_Witness ==
    /\ shutdown /\ ~initShutdown
    /\ \E j \in Batch :
         /\ attempts[j] = << [phase |-> "fetch", class |-> "retryable"],
                             [phase |-> "loop", class |-> "cancelled"] >>
         /\ hist[j].sleeps = 1 /\ hist[j].fetchCalls = 1
    /\ \E t \in Threads : thr[t].pc = "fetch"

\* C13: run() always returns, whatever the per-job outcomes (success,
\* failure of any class, exhausted retries, exceptions, an exception that
\* escapes the body) and whenever shutdown is requested, provided every
\* call returns; what it returns is a BatchResult with total = N.
C13_RunReturns ==
    /\ <>(cpc = "done")
    /\ [](cpc = "done" => (result # NoResult /\ result.total = nJobs))

\* run() returned for a full batch in which one job completed, one body
\* ended with an exception and shutdown was requested before the last job
\* was submitted
C13_Witness ==
    /\ cpc = "done" /\ nJobs = NumJobs /\ result.total = NumJobs
    /\ shutdown /\ ~initShutdown
    /\ \E j \in Batch : job[j].status = COMPLETE
    /\ \E j \in Batch : \E i \in 1..Len(attempts[j]) :
         attempts[j][i].class = "escaped"
    /\ \E j \in Batch : hist[j].dispatched = 0

\* C14 as claimed: the counter raised for a collected job matches the job's
\* status (completed iff Complete, cancelled iff Cancelled, failed
\* otherwise), so a Cancelled job is never counted in request.failed.
C14_CounterMatchesStatus ==
    \A j \in Batch :
        hist[j].counted >= 1 =>
            /\ hist[j].countedAs = "completed" <=> job[j].status = COMPLETE
            /\ hist[j].countedAs = "cancelled" <=> job[j].status = CANCELLED
            /\ hist[j].countedAs = "failed" <=>
                  job[j].status \notin {COMPLETE, CANCELLED}

\* jobs not yet handed to the pool, or handed to it and not yet resolved
Unfinished ==
    { j \in Batch : \/ hist[j].dispatched = 0
                    \/ \E f \in InFlight : futures[f].job = j }

\* C15: when run() has returned and shutdown was never requested,
\* completed + failed + cancelled = total; while some job is undispatched
\* or in flight the sum is below total.
C15_EqualityOnlyAtEnd ==
    /\ (cpc = "done" /\ ~shutdown) => completed + failed + cancelled = nJobs
    /\ Unfinished # {} => completed + failed + cancelled < nJobs

\* run() returned without a shutdown for a full batch on fewer workers, with
\* a failed and a completed job
C15_Witness ==
    /\ cpc = "done" /\ ~shutdown
    /\ nJobs = NumJobs /\ max_workers < nJobs
    /\ completed + failed + cancelled = nJobs
    /\ failed = 1 /\ completed = nJobs - 1

\* C16 as claimed: the events of a job are one "started", then "progress"
\* events, then exactly one of "complete" and "failed"; the terminal event
\* is there once the job's body has returned, for retried and for
\* cancelled jobs too.
C16_EventSequence ==
    \A j \in Batch :
        LET e == events[j]
        IN /\ e # << >> => e[1] = "started"
           /\ \A i \in 2..Len(e) :
                /\ e[i] # "started"
                /\ e[i] \in {"complete", "failed"} => i = Len(e)
           /\ Returned(j) =>
                (e # << >> /\ e[Len(e)] \in {"complete", "failed"})

\* C17: while the shutdown flag is set, by a signal or by
\* WorkerPool.shutdown(), every submit and submit_job call returns None and
\* creates no future, so the function it was given is never started; the
\* flag, once set, stays set.
C17_NoSubmitAfterShutdown ==
    [][shutdown =>
         /\ shutdown'
         /\ Len(futures') = Len(futures)
         /\ client'.last # client.last => client'.last = 0
         /\ \A w \in WorkerIds \cup {NoWorker} :
               /\ Submit(Len(futures) + 1, w).fut = 0
               /\ Submit(Len(futures) + 1, w).futures = futures
         /\ \A w \in WorkerIds : \A sig \in BOOLEAN :
               /\ SubmitJob(Len(futures) + 1, w, worker_states, sig).fut = 0
               /\ SubmitJob(Len(futures) + 1, w, worker_states, sig).futures
                     = futures]_vars

\* after WorkerPool.shutdown() a submission returned None while an earlier
\* one had returned a future
C17_Witness ==
    /\ cpc = "pool" /\ shutdown /\ client.down
    /\ client.last = 0 /\ client.lastSaw
    /\ Len(futures) >= 1

\* the futures that have an entry in the completion
InResults == { client.results[i] : i \in 1..Len(client.results) }

InErrors == { client.errors[i][2] : i \in 1..Len(client.errors) }

\* C18 as claimed: when wait_for_completion has returned, every given
\* future has resolved and results and errors together have as many
\* entries as the list of futures that was given.
C18_OneEntryPerListed ==
    client.pc = "returned" =>
        /\ \A i \in 1..Len(client.arg) : futures[client.arg[i]].state = "done"
        /\ Len(client.results) + Len(client.errors) = Len(client.arg)

\* C18 amended: wait_for_completion returns only after every given future
\* has resolved; every distinct future given has exactly one entry, its
\* return value in results or the pair of its worker_id and exception in
\* errors, whatever the other futures did; results and errors together
\* have as many entries as there are distinct futures in the list.
C18_OneEntryPerFuture ==
    /\ client.pc \in {"waiting", "returned"} =>
          /\ Cardinality(InResults) = Len(client.results)
          /\ Cardinality(InErrors) = Len(client.errors)
          /\ InResults \cap InErrors = {}
          /\ InResults \cup InErrors
                = AsCompletedSet(client.arg) \ client.waitset
          /\ \A f \in InResults : futures[f].result = "value"
          /\ \A i \in 1..Len(client.errors) :
                /\ futures[client.errors[i][2]].result = "error"
                /\ client.errors[i][1] = futures[client.errors[i][2]].worker_id
    /\ client.pc = "returned" =>
          /\ \A i \in 1..Len(client.arg) : futures[client.arg[i]].state = "done"
          /\ InResults \cup InErrors = AsCompletedSet(client.arg)
          /\ Len(client.results) + Len(client.errors)
                = Cardinality(AsCompletedSet(client.arg))

\* wait_for_completion returned for two futures, one whose function raised
\* and was collected first, one whose function returned
C18_Witness ==
    /\ client.pc = "returned"
    /\ Len(client.arg) = 2 /\ client.arg[1] # client.arg[2]
    /\ Len(client.errors) = 1 /\ Len(client.results) = 1
    /\ \E f \in InErrors : \E g \in InResults : f < g

\* attempts of job j whose download() failed
FetchFailures(j) ==
    Cardinality({ i \in 1..Len(attempts[j]) : attempts[j][i].phase = "fetch" })

\* C19: transcode() is called only in an attempt whose download() has
\* returned success, never after a failed download() of that attempt, and a
\* job is Complete only after a successful download() followed by a
\* successful transcode() in its last attempt.
C19_FetchBeforeConvert ==
    /\ \A j \in Batch :
         /\ hist[j].convertCalls <= hist[j].fetchOk
         /\ hist[j].fetchOk + FetchFailures(j) <= hist[j].fetchCalls
         /\ job[j].status = COMPLETE =>
               /\ attempts[j] # << >>
               /\ attempts[j][Len(attempts[j])]
                     = [phase |-> "convert", class |-> "ok"]
               /\ hist[j].fetchCalls = Len(attempts[j])
               /\ hist[j].fetchOk = ConvertEntries(j)
               /\ hist[j].convertCalls = ConvertEntries(j)
    /\ \A t \in Threads :
         thr[t].pc \in {"convert", "converting"} =>
            /\ hist[JobOf(t)].fetchCalls = Len(attempts[JobOf(t)]) + 1
            /\ hist[JobOf(t)].fetchOk = ConvertEntries(JobOf(t)) + 1
            /\ FetchFailures(JobOf(t)) + ConvertEntries(JobOf(t))
                  = Len(attempts[JobOf(t)])

\* a job is Complete after an attempt whose download() failed, with no
\* transcode() call, and an attempt in which both calls succeeded
C19_Witness ==
    \E j \in Batch :
        /\ job[j].status = COMPLETE
        /\ attempts[j] = << [phase |-> "fetch", class |-> "retryable"],
                            [phase |-> "convert", class |-> "ok"] >>
        /\ hist[j].fetchCalls = 2 /\ hist[j].convertCalls = 1

\* jobs whose body has returned, or ended, after an exception raised in its
\* last attempt
EndedByException ==
    { j \in Batch : /\ Returned(j)
                    /\ hist[j].raised # None
                    /\ attempts[j][Len(attempts[j])].class # "cancelled" }

\* C20 as claimed: a job whose body was ended by an exception, wherever it
\* was raised, is Failed, its error_message carries the exception's
\* message, it is counted in request.failed when collected and it is among
\* the failed jobs of the BatchResult.
C20_ExceptionIsFailed ==
    /\ \A j \in EndedByException :
         /\ job[j].status = FAILED
         /\ job[j].error_message # None
         /\ Contains(job[j].error_message.text, hist[j].raised.text)
         /\ hist[j].counted >= 1 => hist[j].countedAs = "failed"
    /\ cpc = "done" => result.failed >= Cardinality(EndedByException)

\* ---------------------------------------------- DownloadJob, called directly
\* the job a direct caller constructed
TheJob == job[1]

\* C21: current_percent of a job is an integer in [0, 100] in every state
\* reached through construction, update_progress, mark_* and increment_retry:
\* a value above 100 given to the constructor or to update_progress is stored
\* as 100 and a negative one as 0, a value in range as it is.
C21_PercentClamped ==
    /\ TheJob.current_percent \in 0..100
    /\ caller.method \in {"__init__", "update_progress"} =>
          /\ caller.arg > 100 => TheJob.current_percent = 100
          /\ caller.arg < 0 => TheJob.current_percent = 0
          /\ caller.arg \in 0..100 => TheJob.current_percent = caller.arg

\* update_progress(150) on a job that stood at 50 left it at 100
C21_Witness ==
    /\ cpc = "job"
    /\ caller.method = "update_progress" /\ caller.arg = 150
    /\ caller.before.current_percent = 50
    /\ TheJob.current_percent = 100

\* a progress callback has been made for job j
ProgressSeen(j) == \E i \in 1..Len(events[j]) : events[j][i] = "progress"

\* C22 as claimed: a job that has just become Active stands at 0, and only a
\* Complete job stands at 100.
C22_HundredOnlyWhenComplete ==
    \A j \in Jobs :
        /\ (job[j].status = ACTIVE /\ ~ProgressSeen(j)) => job[j].current_percent = 0
        /\ job[j].current_percent = 100 => job[j].status = COMPLETE

\* C22 amended: the percent is 0 immediately after every transition into
\* Active, 0 in every Pending job and 100 in every Complete job; a job that is
\* not Complete stands at 100 only after a progress callback reported the
\* whole download, and it keeps that percent when it leaves Active for Failed
\* or Cancelled.
C22_PercentResets ==
    /\ [](\A j \in Jobs :
            /\ job[j].status = PENDING => job[j].current_percent = 0
            /\ job[j].status = COMPLETE => job[j].current_percent = 100
            /\ (job[j].current_percent # 0 /\ job[j].status # COMPLETE) =>
                  ProgressSeen(j))
    /\ [][\A j \in Jobs :
            /\ (job[j].status # ACTIVE /\ job'[j].status = ACTIVE) =>
                  job'[j].current_percent = 0
            /\ (job[j].status = ACTIVE /\ job'[j].status \in {FAILED, CANCELLED}) =>
                  job'[j].current_percent = job[j].current_percent]_vars

\* a download reported in full whose attempt then failed
C22_Witness ==
    \E j \in Batch :
        /\ job[j].status = FAILED
        /\ job[j].current_percent = 100
        /\ ProgressSeen(j)

\* C23: in every state of a batch run, for every job, error_message is present
\* (not None) iff the status is Failed, and output_path is present iff the
\* status is Complete.
C23_FieldsMatchStatus ==
    \A j \in Jobs :
        /\ job[j].error_message.has <=> job[j].status = FAILED
        /\ job[j].output_path # NoPath <=> job[j].status = COMPLETE

\* a job that was Failed with a message, was retried and is now Complete
\* with a path and no message
C23_Witness ==
    \E j \in Batch :
        /\ job[j].status = COMPLETE /\ job[j].retry_count >= 1
        /\ hist[j].failedEntries >= 1
        /\ job[j].output_path # NoPath /\ ~job[j].error_message.has

\* the last call was a method call that changed the status
StatusChanged ==
    /\ caller.method \notin {"none", "__init__"}
    /\ caller.before.status # TheJob.status

\* C24 as claimed: whatever methods are called in whatever order, every status
\* change is an edge of the machine (Active -> Pending with retry_count + 1),
\* and no call moves a job out of Complete or Cancelled.
C24_MethodsEnforceMachine ==
    LET edge == <<caller.before.status, TheJob.status>>
    IN StatusChanged =>
          /\ edge \in { <<PENDING, ACTIVE>>, <<ACTIVE, COMPLETE>>,
                        <<ACTIVE, PENDING>>, <<ACTIVE, FAILED>>,
                        <<ACTIVE, CANCELLED>>, <<PENDING, CANCELLED>> }
          /\ edge = <<ACTIVE, PENDING>> =>
                TheJob.retry_count = caller.before.retry_count + 1
          /\ caller.before.status \notin {COMPLETE, CANCELLED}

\* C24 amended: the methods do not look at the current status.  From every
\* status mark_active yields Active, mark_complete Complete, mark_failed
\* Failed, mark_cancelled Cancelled and increment_retry Pending with
\* retry_count + 1; update_progress keeps the status; only increment_retry
\* changes retry_count.
C24_MethodsAssign ==
    /\ caller.method = "mark_active" => TheJob.status = ACTIVE
    /\ caller.method = "mark_complete" => TheJob.status = COMPLETE
    /\ caller.method = "mark_failed" => TheJob.status = FAILED
    /\ caller.method = "mark_cancelled" => TheJob.status = CANCELLED
    /\ caller.method = "increment_retry" =>
          /\ TheJob.status = PENDING
          /\ TheJob.retry_count = caller.before.retry_count + 1
    /\ caller.method = "update_progress" => TheJob.status = caller.before.status
    /\ caller.method \notin {"none", "__init__", "increment_retry"} =>
          TheJob.retry_count = caller.before.retry_count

\* mark_active() called on a Complete job made it Active
C24_Witness ==
    /\ cpc = "job"
    /\ caller.method = "mark_active"
    /\ caller.before.status = COMPLETE
    /\ TheJob.status = ACTIVE

\* C25: error_message is cleared on every transition out of Failed: when a
\* method (increment_retry, mark_active, mark_complete, mark_cancelled) takes
\* a Failed job to another status, error_message is None afterwards.
C25_MessageClearedOnLeavingFailed ==
    (StatusChanged /\ caller.before.status = FAILED) =>
        ~TheJob.error_message.has

\* C26: for a job in any state with retry_count = r, mark_failed(e) followed
\* by increment_retry() yields status Pending, retry_count = r + 1,
\* current_percent = 0 and error_message = None, and leaves url, output_dir,
\* format, output_path and current_title as they were.
C26_FailThenRetry ==
    \A e \in ErrorInputs :
        LET after == increment_retry(mark_failed(TheJob, e))
        IN /\ after.status = PENDING
           /\ after.retry_count = TheJob.retry_count + 1
           /\ after.current_percent = 0
           /\ after.error_message = None
           /\ after.url = TheJob.url
           /\ after.output_dir = TheJob.output_dir
           /\ after.format = TheJob.format
           /\ after.output_path = TheJob.output_path
           /\ after.current_title = TheJob.current_title

\* increment_retry() was called on a job that mark_failed had just left
\* Failed, with a path and a percent from earlier calls, and it is Pending
C26_Witness ==
    /\ cpc = "job"
    /\ caller.method = "increment_retry"
    /\ caller.before.status = FAILED /\ caller.before.error_message.has
    /\ caller.before.output_path # NoPath /\ caller.before.current_percent = 100
    /\ TheJob.status = PENDING /\ TheJob.error_message = None
    /\ TheJob.retry_count = caller.before.retry_count + 1
    /\ TheJob.output_path = caller.before.output_path

\* C27: mark_cancelled is idempotent: called on a job that is already
\* Cancelled it changes no field.
C27_CancelIdempotent ==
    /\ TheJob.status = CANCELLED => mark_cancelled(TheJob) = TheJob
    /\ mark_cancelled(mark_cancelled(TheJob)) = mark_cancelled(TheJob)
    /\ (caller.method = "mark_cancelled" /\ caller.before.status = CANCELLED) =>
          TheJob = caller.before

\* mark_cancelled() was called on a Cancelled job that carries a message, a
\* path and a percent, and nothing changed
C27_Witness ==
    /\ cpc = "job"
    /\ caller.method = "mark_cancelled"
    /\ caller.before.status = CANCELLED
    /\ caller.before.error_message.has /\ caller.before.output_path # NoPath
    /\ caller.before.current_percent = 50
    /\ TheJob = caller.before

\* ------------------------------------------------------ the error classifier
\* the message the retry decision reads: job.error_message or ""
TheError == OrElse(TheJob.error_message, << >>)

\* text contains pattern when the case of letters is ignored
ContainsCI(text, pattern) ==
    \E i \in 1..(Len(text) - Len(pattern) + 1) :
        \A k \in 1..Len(pattern) : LowerChar(text[i + k - 1]) = LowerChar(pattern[k])

\* text contains one of the patterns, case ignored
MatchesAny(text, patterns) == \E pattern \in patterns : ContainsCI(text, pattern)

\* C28: precedence law of the classifier: for every message that contains,
\* case ignored, at least one permanent pattern, is_permanent_error is true
\* and is_retryable_error is false, also when the message contains a retryable
\* pattern; the two predicates are never both true.
C28_PermanentPrecedence ==
    /\ MatchesAny(TheError, PERMANENT_PATTERNS) =>
          /\ is_permanent_error(TheError)
          /\ ~is_retryable_error(TheError)
    /\ ~(is_permanent_error(TheError) /\ is_retryable_error(TheError))

\* the job failed with a message in capitals that holds a permanent and a
\* retryable pattern, retries were left, and the body returned Failed without
\* a retry
C28_Witness ==
    /\ cpc = "classify"
    /\ TheError = Upper(TheError) /\ TheError # << >>
    /\ MatchesAny(TheError, PERMANENT_PATTERNS)
    /\ MatchesAny(TheError, RETRYABLE_PATTERNS)
    /\ max_attempts > 1
    /\ futures[1].state = "done" /\ futures[1].result = FAILED
    /\ TheJob.retry_count = 0

\* the message matches neither pattern list (the empty message too)
Unknown(text) ==
    /\ ~MatchesAny(text, PERMANENT_PATTERNS)
    /\ ~MatchesAny(text, RETRYABLE_PATTERNS)

\* C29: for an empty or absent message and for any message matching neither
\* pattern list, is_retryable_error and is_permanent_error are both false, and
\* a job whose attempt failed with such a message is not retried: the body
\* returns Failed without a sleep and without increment_retry.
C29_UnknownNotRetried ==
    /\ [](Unknown(TheError) =>
             /\ ~is_retryable_error(TheError)
             /\ ~is_permanent_error(TheError))
    /\ [][\A t \in Threads :
             (thr[t].pc = "classify" /\ JobOf(t) = 1 /\ Unknown(TheError)
                 /\ thr'[t] # thr[t]) =>
                /\ futures'[thr[t].fut].state = "done"
                /\ futures'[thr[t].fut].result = FAILED
                /\ thr'[t].pc # "sleeping"
                /\ job' = job
                /\ hist' = hist]_vars

\* the job failed with the empty message, retries were left, and the body
\* returned Failed with retry_count still 0
C29_Witness ==
    /\ cpc = "classify"
    /\ TheJob.status = FAILED /\ TheJob.error_message = Some(<< >>)
    /\ max_attempts > 1
    /\ futures[1].state = "done" /\ futures[1].result = FAILED
    /\ TheJob.retry_count = 0 /\ hist[1].sleeps = 0

\* C30 as claimed: every message containing one of the fifteen substrings
\* listed as permanent is Permanent, and a message is Retryable iff it
\* contains none of them and contains one of the substrings listed as
\* retryable.
C30_ListedSubstrings ==
    LET permanent ==
            { <<"n","o","t"," ","f","o","u","n","d">>,
              <<"4","0","4">>,
              <<"p","r","i","v","a","t","e">>,
              <<"u","n","a","v","a","i","l","a","b","l","e">>,
              <<"r","e","m","o","v","e","d">>,
              <<"d","e","l","e","t","e","d">>,
              <<"b","l","o","c","k","e","d">>,
              <<"a","g","e"," ","r","e","s","t","r","i","c","t","e","d">>,
              <<"a","g","e","-","r","e","s","t","r","i","c","t","e","d">>,
              <<"c","o","p","y","r","i","g","h","t">>,
              <<"m","e","m","b","e","r","s"," ","o","n","l","y">>,
              <<"s","i","g","n"," ","i","n">>,
              <<"l","o","g","i","n"," ","r","e","q","u","i","r","e","d">>,
              <<"i","n","v","a","l","i","d"," ","u","r","l">>,
              <<"u","n","s","u","p","p","o","r","t","e","d"," ","u","r","l">> }
        retryable ==
            { <<"t","i","m","e","o","u","t">>,
              <<"t","i","m","e","d"," ","o","u","t">>,
              <<"c","o","n","n","e","c","t","i","o","n"," ","r","e","s","e","t">>,
              <<"c","o","n","n","e","c","t","i","o","n"," ","r","e","f","u","s","e","d">>,
              <<"c","o","n","n","e","c","t","i","o","n"," ","e","r","r","o","r">>,
              <<"t","e","m","p","o","r","a","r","y"," ","f","a","i","l","u","r","e">>,
              <<"4","2","9">>,
              <<"t","o","o"," ","m","a","n","y"," ","r","e","q","u","e","s","t","s">>,
              <<"5","0","3">>,
              <<"s","e","r","v","i","c","e"," ","u","n","a","v","a","i","l","a","b","l","e">>,
              <<"n","e","t","w","o","r","k">>,
              <<"s","s","l"," ","e","r","r","o","r">> }
    IN /\ MatchesAny(TheError, permanent) =>
             /\ is_permanent_error(TheError)
             /\ ~is_retryable_error(TheError)
       /\ is_retryable_error(TheError) <=>
             /\ ~MatchesAny(TheError, permanent)
             /\ MatchesAny(TheError, retryable)

\* C30 amended: a message is Permanent iff it contains, case ignored, one of
\* the eighteen entries of PERMANENT_PATTERNS ("private video" and "is
\* private", not "private"; "video unavailable", not "unavailable"; also "geo
\* restricted" and "available to members"), and Retryable iff it contains
\* none of them and one of the entries of RETRYABLE_PATTERNS; a message that
\* says "service unavailable" and nothing permanent is Retryable.
C30_PatternLists ==
    /\ is_permanent_error(TheError) <=> MatchesAny(TheError, PERMANENT_PATTERNS)
    /\ is_retryable_error(TheError) <=>
          /\ ~MatchesAny(TheError, PERMANENT_PATTERNS)
          /\ MatchesAny(TheError, RETRYABLE_PATTERNS)
    /\ (/\ ContainsCI(TheError, <<"s","e","r","v","i","c","e"," ","u","n","a","v","a","i","l","a","b","l","e">>)
        /\ ~MatchesAny(TheError, PERMANENT_PATTERNS)) =>
          is_retryable_error(TheError)

\* the job failed with "SERVICE UNAVAILABLE", which holds "unavailable", and
\* is waiting to be retried
C30_Witness ==
    /\ cpc = "classify"
    /\ TheError = Upper(<<"s","e","r","v","i","c","e"," ","u","n","a","v","a","i","l","a","b","l","e">>)
    /\ ContainsCI(TheError, <<"u","n","a","v","a","i","l","a","b","l","e">>)
    /\ thr[1].pc = "sleeping"

\* ------------------------------------------------------------ RetryConfig
\* min(base_delay * 2^max(a, 0), max_delay) of the config at hand
CappedDelay(a) ==
    Min(retry_config.base_delay * Pow2(IF a < 0 THEN 0 ELSE a), retry_config.max_delay)

\* C31 as claimed: for every valid config and every attempt the delay is at
\* most max_delay; ignoring jitter it does not decrease with the attempt; and
\* without jitter it is min(base_delay * 2^max(a, 0), max_delay).
C31_DelayAtMostMax ==
    retry_config.built = "asked" =>
        /\ retry_config.delay <= retry_config.max_delay
        /\ \A a \in 0..MaxAttemptArg : CappedDelay(a) <= CappedDelay(a + 1)
        /\ ~retry_config.jitter => retry_config.delay = CappedDelay(retry_config.attempt)

\* C31 amended: without jitter the delay is min(base_delay * 2^max(a, 0),
\* max_delay), so at most max_delay and non-decreasing in a; with jitter a
\* value in [0, 1] second is added after the cap, so the delay lies between
\* that value and that value plus one second and can exceed max_delay.
C31_DelayCappedBeforeJitter ==
    retry_config.built = "asked" =>
        /\ \A a \in 0..MaxAttemptArg : CappedDelay(a) <= CappedDelay(a + 1)
        /\ CappedDelay(retry_config.attempt) <= retry_config.max_delay
        /\ CappedDelay(-1) = CappedDelay(0)
        /\ ~retry_config.jitter => retry_config.delay = CappedDelay(retry_config.attempt)
        /\ retry_config.jitter =>
              /\ retry_config.delay >= CappedDelay(retry_config.attempt)
              /\ retry_config.delay <= CappedDelay(retry_config.attempt) + TicksPerSecond

\* a config with jitter asked for an attempt beyond the cap answered with more
\* than max_delay
C31_Witness ==
    /\ cpc = "retry"
    /\ retry_config.built = "asked" /\ retry_config.jitter
    /\ retry_config.base_delay > 0 /\ retry_config.attempt > 0
    /\ retry_config.delay > retry_config.max_delay

\* C32: constructing a RetryConfig fails exactly when max_attempts is outside
\* [1, 10], or base_delay < 0, or max_delay < base_delay; every other
\* combination constructs, and only a constructed config is ever asked for a
\* delay.
C32_ConstructionFailsExactly ==
    /\ retry_config.built \in {"ok", "asked", "error"} =>
          (retry_config.built = "error" <=>
              \/ retry_config.max_attempts \notin 1..10
              \/ retry_config.base_delay < 0
              \/ retry_config.max_delay < retry_config.base_delay)
    /\ retry_config.built = "asked" =>
          /\ retry_config.max_attempts \in 1..10
          /\ 0 <= retry_config.base_delay
          /\ retry_config.base_delay <= retry_config.max_delay

\* the constructor raised for a config whose only fault is max_delay below
\* base_delay
C32_Witness ==
    /\ cpc = "retry"
    /\ retry_config.built = "error"
    /\ retry_config.max_attempts \in 1..10 /\ retry_config.base_delay >= 0
    /\ retry_config.max_delay < retry_config.base_delay

\* ------------------------------------------------ BatchRequest.pending_jobs
\* C33: pending_jobs() yields, in list order, exactly the jobs that are
\* Pending or are Failed with retry_count < max_retries, and every job it
\* yields has status Pending when the caller receives it.
C33_YieldsPendingInOrder ==
    yielded.pos = nJobs =>
        /\ \A j \in Batch :
              (\E i \in 1..Len(yielded.out) : yielded.out[i].job = j) <=>
                 \/ job[j].status = PENDING
                 \/ job[j].status = FAILED /\ job[j].retry_count < max_retries
        /\ \A i, k \in 1..Len(yielded.out) :
              i < k => yielded.out[i].job < yielded.out[k].job
        /\ \A i \in 1..Len(yielded.out) : yielded.out[i].status = PENDING

\* ------------------------------------------------------------ run(), again
\* C34: while shutdown has not been requested and a job is still to be
\* dispatched, whenever the coordinator is back at the top of its loop (the
\* seeding or a batch of completed submissions handled) the submissions it has
\* in flight, pending_futures, are effective_workers many, one per worker
\* slot, and jobs have been submitted in list order.
C34_SteadyState ==
    (cpc = "loop" /\ ~shutdown /\ job_index < nJobs) =>
        /\ Len(pending_futures) = effective_workers
        /\ \A w \in 0..(effective_workers - 1) :
              Cardinality({ i \in 1..Len(pending_futures) :
                              futures[pending_futures[i]].worker_id = w }) = 1
        /\ \A w \in 0..(effective_workers - 1) : worker_states[w] # 0
        /\ \A f \in 1..Len(futures) : futures[f].job = f
        /\ job_index = Len(futures)

\* a completed submission has been handled, its slot refilled, and a job is
\* still to be dispatched
C34_Witness ==
    /\ cpc = "loop" /\ ~shutdown /\ job_index < nJobs
    /\ completed + failed >= 1
    /\ Len(pending_futures) = effective_workers
    /\ \E i \in 1..Len(pending_futures) : futures[pending_futures[i]].job = 2

\* ------------------------------------------------------- file placement
\* C35: under every interleaving of workers converting in parallel into one
\* output directory, also with identical titles, no two jobs end with the
\* same output_path, every Complete job owns the file at its output_path, and
\* no rename replaces or removes a final file that was there before it.
C35_NoCollision ==
    /\ [](\A j, k \in Batch :
            (j # k /\ job[j].status = COMPLETE /\ job[k].status = COMPLETE) =>
               job[j].output_path # job[k].output_path)
    /\ [](\A j \in Batch :
            job[j].status = COMPLETE =>
               [path |-> job[j].output_path, owner |-> j] \in files)
    /\ [][\A f \in files : f \in files']_vars

\* two jobs with the same title have both been placed, the second under a
\* numbered name, next to a file that was there before
C35_Witness ==
    /\ cpc = "files"
    /\ \E j, k \in Batch :
          /\ j # k
          /\ job[j].current_title = job[k].current_title
          /\ job[j].status = COMPLETE /\ job[k].status = COMPLETE
          /\ Len(job[k].output_path.suffix) > Len(job[j].output_path.suffix)
    /\ \E f \in files : f.owner = 0

\* ------------------------------------------------------- download_batch
\* C36: for every max_workers in 1..16 and every max_retries in 0..10,
\* download_batch constructs its configuration without error, and a job whose
\* every attempt fails with a retryable error is fetched exactly
\* max_retries + 1 times.
C36_RetriesAllowed ==
    (max_workers \in 1..16 /\ max_retries \in 0..10) =>
        /\ cpc # "error"
        /\ (cpc = "done" /\ ~shutdown /\ Returned(1) /\ AllRetryable(1)) =>
              hist[1].fetchCalls = max_retries + 1

\* C37: when run() returns, request.completed equals BatchResult.successful
\* and the number of jobs in status Complete, and request.failed equals
\* BatchResult.failed and the number of jobs in status Failed, also in runs
\* in which shutdown was requested while jobs were in flight.
C37_CountersAgreeAtReturn ==
    cpc = "done" =>
        /\ completed = result.successful
        /\ completed = Cardinality({ j \in Batch : job[j].status = COMPLETE })
        /\ failed = result.failed
        /\ failed = Cardinality({ j \in Batch : job[j].status = FAILED })

\* jobs whose body a pool thread has started executing
BodyStarted ==
    { j \in Batch : \E f \in 1..Len(futures) :
                        futures[f].job = j /\ futures[f].state \in {"running", "done"} }

\* C38: when run() returns no job has status Active, and a job is Pending
\* at that point only if its body never started executing.
C38_NoActiveAtReturn ==
    cpc = "done" =>
        \A j \in Batch :
            /\ job[j].status # ACTIVE
            /\ job[j].status = PENDING => j \notin BodyStarted

\* C39: in every reachable state of a run each job's retry_count is between
\* 0 and max_attempts - 1 and equals the number of the job's attempts that
\* failed with a retryable error and were followed by a completed backoff
\* sleep; at a terminal state reached without shutdown the number of fetch
\* invocations for the job equals retry_count + 1.
C39_RetryCountCountsSleeps ==
    \A j \in Batch :
        /\ job[j].retry_count \in 0..(max_attempts - 1)
        /\ job[j].retry_count = hist[j].sleeps
        /\ job[j].retry_count <= Len(attempts[j])
        /\ \A i \in 1..Len(attempts[j]) :
             i <= job[j].retry_count =>
                /\ attempts[j][i].phase \in {"fetch", "convert"}
                /\ attempts[j][i].class = "retryable"
        /\ \A i \in 1..Len(attempts[j]) :
             (i > job[j].retry_count /\ attempts[j][i].class = "retryable") =>
                /\ i = Len(attempts[j])
                /\ \/ job[j].status = FAILED
                   \/ \E t \in Threads :
                         thr[t].fut # 0 /\ JobOf(t) = j /\ thr[t].pc = "sleeping"
        /\ (~shutdown /\ job[j].status \in TERMINAL) =>
              hist[j].fetchCalls = job[j].retry_count + 1

\* without shutdown a job is Failed after a retryable failure, a completed
\* sleep and a second failure: retry_count 1 and two download() calls
C39_Witness ==
    /\ ~shutdown /\ nJobs = 1 /\ max_attempts = MaxAttempts
    /\ job[1].status = FAILED
    /\ job[1].retry_count = 1 /\ hist[1].sleeps = 1
    /\ hist[1].fetchCalls = 2
    /\ Len(attempts[1]) = 2
    /\ attempts[1][1].class = "retryable"

\* C40: no step of run() or of the WorkerPool it uses (enter, submit_job,
\* submit, exit) clears the shutdown flag, so once set it stays set, and a
\* run() started while the flag is set dispatches no job: no future is
\* created, no job is handed to a worker and no body starts.
C40_FlagNeverCleared ==
    [][/\ shutdown => shutdown'
       /\ initShutdown =>
            /\ shutdown'
            /\ futures' = << >>
            /\ pending_futures' = << >>
            /\ \A j \in Jobs : hist'[j].dispatched = 0
            /\ \A w \in WorkerIds : worker_states'[w] = 0
            /\ \A t \in Threads : thr'[t].pc = "idle"]_vars

\* a run() entered with the flag set has returned: it went through every
\* job of a two-job batch without creating a future
C40_Witness ==
    /\ cpc = "done" /\ initShutdown /\ shutdown
    /\ nJobs >= 2 /\ effective_workers = 2
    /\ seed_id = effective_workers
    /\ futures = << >>
    /\ \A j \in Batch : hist[j].dispatched = 0 /\ job[j].status = PENDING

====
